---- MODULE Spec2Model ----
(***************************************************************************)
(* Model of the order book engine of the exchange (market/src/lib.rs):     *)
(* one Market bound to one shared Instrument and one feed Disseminator.    *)
(*                                                                         *)
(* The book is the pair of VecDeque<Order> bids / asks and the order-id    *)
(* counter.  Every public operation of Market is one action; add_order is  *)
(* an operator on a market value because modify_order calls it.            *)
(* The feed is modelled by the events one call hands to the disseminator   *)
(* (the MockDisseminator of the unit tests collects exactly these).        *)
(*                                                                         *)
(* bids_ops / asks_ops only drive VecDeque::make_contiguous, which does    *)
(* not change the content or the order of a deque; they are not modelled.  *)
(***************************************************************************)
EXTENDS Integers, Sequences, FiniteSets, TLC

\* ------------------------------------------------------------------------
\* Bounds of the model
\* ------------------------------------------------------------------------
MaxOrderId == 3

\* ------------------------------------------------------------------------
\* Value sets
\* ------------------------------------------------------------------------
Sides == {"Bid", "Ask"}

OrderTypes == {"Day", "Market", "FillAndKill", "FillOrKill"}

InstrumentStates == {"Trading", "Closed", "Auction"}

BandValues == {10}

\* the id of the instrument the market is created for
InstrumentId == 1000

Participants == {1}

Gateways == {1}

Sessions == {1}

Prices == {0, 123, 1000, 1001}

Quantities == {0, 100, 200}

\* Order::new : the id of a fresh order is 0
OrderNew(participant, price, quantity, side, order_type, gateway_id, session_id) ==
    [id |-> 0, participant |-> participant, price |-> price,
     quantity |-> quantity, side |-> side, order_type |-> order_type,
     gateway_id |-> gateway_id, session_id |-> session_id]

\* Order::set_id
SetId(o, id) == [o EXCEPT !.id = id]

NewOrders ==
    {OrderNew(p, pr, q, s, t, g, ss) :
        p \in Participants, pr \in Prices, q \in Quantities, s \in Sides,
        t \in OrderTypes, g \in Gateways, ss \in Sessions}

Min(a, b) == IF a < b THEN a ELSE b

\* ------------------------------------------------------------------------
\* Feed events (Disseminator trait, as collected by MockDisseminator)
\* ------------------------------------------------------------------------
TradeEvent(bid_order_id, ask_order_id, price, quantity) ==
    [kind |-> "Trade", bid_order_id |-> bid_order_id,
     ask_order_id |-> ask_order_id, price |-> price, quantity |-> quantity]

NewOrderEvent(o) == [kind |-> "NewOrder", order |-> o]

CancelEvent(o) == [kind |-> "Cancel", order |-> o]

ModifyEvent(o) == [kind |-> "Modify", order |-> o]

\* ------------------------------------------------------------------------
\* State
\* ------------------------------------------------------------------------
VARIABLES
    bids,        \* Market.bids
    asks,        \* Market.asks
    order_id,    \* Market.order_id
    instrument,  \* the shared Instrument: [id, state, percentage_bands]
    call,        \* the last call made on the Market: [op, order]
    ret,         \* what that call returned: [state, id, cancelled]
    published,   \* the feed events that call published, in order
    prev,        \* the book as it was when that call started
    markets,     \* matching engine: HashMap<u64, Market>, book id -> market
    sessions,    \* gateway: the logged-in sessions of its ConnectionFactory
    order_socket,\* the datagrams sent to the order group and not yet read
    ereports,    \* the execution reports the last step sent
    client_fd_to_session,    \* gateway: ConnectionFactory, fd -> ConnectedSession
    session_id_to_client_fd, \* gateway: ConnectionFactory, session id -> fd
    unread,      \* the bytes a client has sent and the gateway not yet read
    handled,     \* history: the messages the gateway decoded from a client
                 \* so far; the bytes passed to send since cork
    writes,      \* what the last step of the gateway wrote, socket by socket
    instrument_list, \* matching engine: InstrumentList, instrument id -> Rc
    cells,       \* the RefCell<Instrument> behind each Rc of the catalog
    clearing_buffer, \* matching engine: the clearing bytes read and not drained
    seq,         \* MBOOepDisseminator: the sequence number of the next datagram
    clearing_socket, \* the bytes the clearing server sent and the engine
                 \* has not read
    received,    \* history: the clearing bytes the engine has read so far
    applied,     \* history: the instruments passed to add_instrument so far
    feed_socket  \* history: the datagrams the publisher passed to its
                 \* socket, in order, and whether the socket took each

\* the clearing connection and the feed publisher of the matching engine
clearing_vars == <<instrument_list, cells, clearing_buffer, seq,
                   clearing_socket, received, applied, feed_socket>>

\* the matching engine process and the gateway process
engine_vars == <<markets, sessions, order_socket, ereports, clearing_vars>>

\* the connections of the gateway process
gateway_vars == <<client_fd_to_session, session_id_to_client_fd, unread,
                  handled, writes>>

vars == <<bids, asks, order_id, instrument, call, ret, published, prev,
          markets, sessions, order_socket, ereports, client_fd_to_session,
          session_id_to_client_fd, unread, handled, writes,
          instrument_list, cells, clearing_buffer, seq, feed_socket,
          clearing_socket, received, applied>>

\* A market value: what add_order reads and writes.
MarketOf(b, a, oid, ins) ==
    [bids |-> b, asks |-> a, order_id |-> oid, instrument |-> ins]

\* ------------------------------------------------------------------------
\* Market::add_order
\* ------------------------------------------------------------------------

\* What a call leaves behind: the market, the returned pair and the events.
Outcome(m, state, id, events) ==
    [bids |-> m.bids, asks |-> m.asks, order_id |-> m.order_id,
     instrument |-> m.instrument, state |-> state, id |-> id,
     events |-> events]

\* variant: a reject that hands back the id it assigned
Rejected_with_id(m) == Outcome(m, "Rejected", m.order_id, <<>>)

\* `return (OrderState::Rejected, 0)`
Rejected(m) == Outcome(m, "Rejected", 0, <<>>)

\* `self.order_id += 1; o.set_id(self.order_id)`
NextOrderId(m) == m.order_id + 1

\* `o.quantity == 0 || (o.price == 0 && o.order_type != OrderType::Market)`
InvalidOrder(o) ==
    o.quantity = 0 \/ (o.price = 0 /\ o.order_type # "Market")

\* `(bids.front().price + asks.front().price) / 2`
Midpoint(m) == (Head(m.bids).price + Head(m.asks).price) \div 2

\* `midpoint * (100 - bands) / 100`
LowerBand(m) == (Midpoint(m) * (100 - m.instrument.percentage_bands)) \div 100

\* `midpoint * (100 + bands) / 100`
UpperBand(m) == (Midpoint(m) * (100 + m.instrument.percentage_bands)) \div 100

\* variant: a band check that forgets the lower band
OutOfBands_upper_only(m, o) ==
    /\ o.order_type # "Market"
    /\ Len(m.bids) > 0
    /\ Len(m.asks) > 0
    /\ o.price > UpperBand(m)

\* the "Check out of bands" block
OutOfBands(m, o) ==
    /\ o.order_type # "Market"
    /\ Len(m.bids) > 0
    /\ Len(m.asks) > 0
    /\ (o.price < LowerBand(m) \/ o.price > UpperBand(m))

\* variant: gt / lt in place of ge / le
Comp_strict(side, price, top_price) ==
    IF side = "Bid" THEN price > top_price ELSE price < top_price

\* `$order.price.$comp(&$list.front().unwrap().price)`: ge for a bid
\* aggressor (against asks), le for an ask aggressor (against bids)
Comp(side, price, top_price) ==
    IF side = "Bid" THEN price >= top_price ELSE price <= top_price

\* the condition of the while loop of trade_and_add
CanTrade(list, o) ==
    /\ o.quantity > 0
    /\ Len(list) > 0
    /\ (Comp(o.side, o.price, Head(list).price) \/ o.order_type = "Market")

\* `min($list.front().unwrap().quantity, $order.quantity)`
TradeVolume(list, o) == Min(Head(list).quantity, o.quantity)

\* variant: the popped front is never pushed back
MassagePassive_pop(list, vol) == Tail(list)

\* "passive order massaging": pop the front, reduce it, push it back when
\* something is left of it
MassagePassive(list, vol) ==
    LET p == [Head(list) EXCEPT !.quantity = @ - vol]
    IN  IF p.quantity > 0 THEN <<p>> \o Tail(list) ELSE Tail(list)

\* variant: the trade is published at the aggressor's price
TradePrice_aggressor(o, p) == o.price

\* the price a Trade is published at: `price: p.price`
TradePrice(o, p) == p.price

\* the Trade published for a fill of `vol` of aggressor o against passive p
PublishedTrade(o, p, vol) ==
    TradeEvent(IF o.side = "Bid" THEN o.id ELSE p.id,
               IF o.side = "Ask" THEN o.id ELSE p.id,
               TradePrice(o, p), vol)

\* the while loop of trade_and_add: returns the opposite list, the
\* aggressor and the trades published
RECURSIVE MatchLoop(_, _, _)
MatchLoop(list, o, trades) ==
    IF CanTrade(list, o)
    THEN LET vol == TradeVolume(list, o)
         IN  MatchLoop(MassagePassive(list, vol),
                       [o EXCEPT !.quantity = @ - vol],
                       Append(trades, PublishedTrade(o, Head(list), vol)))
    ELSE [list |-> list, order |-> o, trades |-> trades]

\* variant: le / ge in place of lt / gt
Worse_or_equal(side, resident_price, price) ==
    IF side = "Bid" THEN resident_price <= price ELSE resident_price >= price

\* `b.price.$comp(&$order.price)`: lt on the bids, gt on the asks
Worse(side, resident_price, price) ==
    IF side = "Bid" THEN resident_price < price ELSE resident_price > price

\* fit_into_position: the index (0-based) of the first resident order whose
\* price is strictly worse, or the length of the list
RECURSIVE fit_into_position(_, _, _)
fit_into_position(list, o, pos) ==
    IF pos >= Len(list) THEN pos
    ELSE IF Worse(o.side, list[pos + 1].price, o.price) THEN pos
    ELSE fit_into_position(list, o, pos + 1)

\* VecDeque::insert(pos, x)
InsertAt(list, pos, x) ==
    SubSeq(list, 1, pos) \o <<x>> \o SubSeq(list, pos + 1, Len(list))

\* Market::insert_into_right_position, applied to the order's own side
insert_into_right_position(list, o) ==
    InsertAt(list, fit_into_position(list, o, 0), o)

\* variant: only FillAndKill is killed
Killed_fak_only(o) == o.order_type = "FillAndKill"

\* the arm `OrderType::FillAndKill | OrderType::FillOrKill` of the match
Killed(o) == o.order_type \in {"FillAndKill", "FillOrKill"}

\* the arm `OrderType::Market => match trades { 0 => Cancelled, _ => Traded }`
MarketState(trades) == IF trades = 0 THEN "Cancelled" ELSE "Traded"

\* the default arm, after insert_into_right_position: the returned state
PostedState(trades) == IF trades > 0 THEN "PartiallyTraded" ELSE "Inserted"

\* variant: publish_new_order whatever the number of trades
PostedEvents_always(o, trades) == <<NewOrderEvent(o)>>

\* the default arm: publish_new_order only in the else branch of `trades > 0`
PostedEvents(o, trades) == IF trades > 0 THEN <<>> ELSE <<NewOrderEvent(o)>>

\* what trade_and_add does once the loop is over; `trades` are the Trade
\* events published by the loop, own / opp the two sides after it
Resolve(m, own, opp, o, trades) ==
    LET WithSides(mine, theirs) ==
            IF o.side = "Bid"
            THEN [m EXCEPT !.bids = mine, !.asks = theirs]
            ELSE [m EXCEPT !.asks = mine, !.bids = theirs]
        n == Len(trades)
    IN  IF o.quantity = 0
        THEN Outcome(WithSides(own, opp), "Traded", o.id, trades)
        ELSE IF Killed(o)
        THEN Outcome(WithSides(own, opp), "Cancelled", o.id, trades)
        ELSE IF o.order_type = "Market"
        THEN Outcome(WithSides(own, opp), MarketState(n), o.id, trades)
        ELSE Outcome(WithSides(insert_into_right_position(own, o), opp),
                     PostedState(n), o.id, trades \o PostedEvents(o, n))

\* the macro trade_and_add!(opposite list, comparison, order)
trade_and_add(m, o) ==
    LET own == IF o.side = "Bid" THEN m.bids ELSE m.asks
        opp == IF o.side = "Bid" THEN m.asks ELSE m.bids
        r == MatchLoop(opp, o, <<>>)
    IN  Resolve(m, own, r.list, r.order, r.trades)

\* variant: add_order without the check of the instrument's state
add_order_whatever_state(m, order) ==
    LET m1 == [m EXCEPT !.order_id = NextOrderId(m)]
        o == SetId(order, m1.order_id)
    IN  IF InvalidOrder(o) THEN Rejected(m1)
        ELSE IF OutOfBands(m1, o) THEN Rejected(m1)
        ELSE trade_and_add(m1, o)

\* Market::add_order
add_order(m, order) ==
    IF m.instrument.state = "Closed"
    THEN Rejected(m)
    ELSE LET m1 == [m EXCEPT !.order_id = NextOrderId(m)]
             o == SetId(order, m1.order_id)
         IN  IF InvalidOrder(o) THEN Rejected(m1)
             ELSE IF OutOfBands(m1, o) THEN Rejected(m1)
             ELSE trade_and_add(m1, o)

\* ------------------------------------------------------------------------
\* Market::modify_order
\* ------------------------------------------------------------------------

\* variant: the lookup of modify_order does not compare the participant
SameOrder_any_participant(x, o) ==
    /\ x.gateway_id = o.gateway_id
    /\ x.session_id = o.session_id
    /\ x.id = o.id
    /\ x.order_type = o.order_type

\* the closure of remove_and_add: owner, id and type of x are those of o
SameOrder(x, o) ==
    /\ x.participant = o.participant
    /\ x.gateway_id = o.gateway_id
    /\ x.session_id = o.session_id
    /\ x.id = o.id
    /\ x.order_type = o.order_type

\* variant: the lookup of cancel_order does not compare the gateway
SameOwnerAndId_any_gateway(x, o) ==
    /\ x.participant = o.participant
    /\ x.session_id = o.session_id
    /\ x.id = o.id

\* the closure of cancel_order's remove: owner and id of x are those of o
SameOwnerAndId(x, o) ==
    /\ x.participant = o.participant
    /\ x.gateway_id = o.gateway_id
    /\ x.session_id = o.session_id
    /\ x.id = o.id

\* Iterator::position with remove_and_add's closure: the 1-based index of
\* the first matching order, 0 for None
PositionModify(list, o) ==
    IF \E i \in 1..Len(list) : SameOrder(list[i], o)
    THEN CHOOSE i \in 1..Len(list) :
            /\ SameOrder(list[i], o)
            /\ \A j \in 1..(i - 1) : ~SameOrder(list[j], o)
    ELSE 0

\* Iterator::position with cancel_order's closure
PositionCancel(list, o) ==
    IF \E i \in 1..Len(list) : SameOwnerAndId(list[i], o)
    THEN CHOOSE i \in 1..Len(list) :
            /\ SameOwnerAndId(list[i], o)
            /\ \A j \in 1..(i - 1) : ~SameOwnerAndId(list[j], o)
    ELSE 0

\* VecDeque::remove(index), index 1-based here
RemoveAt(list, i) == SubSeq(list, 1, i - 1) \o SubSeq(list, i + 1, Len(list))

SideOf(m, side) == IF side = "Bid" THEN m.bids ELSE m.asks

WithSide(m, side, list) ==
    IF side = "Bid" THEN [m EXCEPT !.bids = list] ELSE [m EXCEPT !.asks = list]

\* variant: no quantity check in modify_order
ZeroQuantity_unchecked(o) == FALSE

\* "run some basic checks": `o.quantity == 0`
ZeroQuantity(o) == o.quantity = 0

\* variant: a same-price modify goes through cancel and re-add as well
modify_order_requeue(m, o) ==
    IF ZeroQuantity(o) THEN Rejected(m)
    ELSE LET list == SideOf(m, o.side)
             index == PositionModify(list, o)
         IN  IF index = 0 THEN Rejected(m)
             ELSE LET r == add_order(WithSide(m, o.side, RemoveAt(list, index)), o)
                  IN  [r EXCEPT !.events = <<CancelEvent(list[index])>> \o @]

\* Market::modify_order
modify_order(m, o) ==
    IF ZeroQuantity(o) THEN Rejected(m)
    ELSE LET list == SideOf(m, o.side)
             index == PositionModify(list, o)
         IN  IF index = 0 THEN Rejected(m)
             ELSE IF o.price = list[index].price
             THEN LET changed == [list[index] EXCEPT !.quantity = o.quantity]
                  IN  Outcome(WithSide(m, o.side,
                                       [list EXCEPT ![index] = changed]),
                              "Modified", changed.id,
                              <<ModifyEvent(changed)>>)
             ELSE LET r == add_order(WithSide(m, o.side, RemoveAt(list, index)), o)
                  IN  [r EXCEPT !.events = <<CancelEvent(list[index])>> \o @]

\* ------------------------------------------------------------------------
\* Market::cancel_order, Market::cancel_all_orders_for_session, Market::close
\* ------------------------------------------------------------------------

\* Market::cancel_order
cancel_order(m, o) ==
    LET list == SideOf(m, o.side)
        index == PositionCancel(list, o)
    IN  IF index = 0 THEN Rejected(m)
        ELSE Outcome(WithSide(m, o.side, RemoveAt(list, index)),
                     "Cancelled", 0, <<CancelEvent(list[index])>>)

\* variant: the filter compares the participant only
OfSession_participant_only(o, participant, gateway_id, session_id) ==
    o.participant = participant

\* the filter of cancel_all_orders_for_session
OfSession(o, participant, gateway_id, session_id) ==
    /\ o.participant = participant
    /\ o.gateway_id = gateway_id
    /\ o.session_id = session_id

\* `.iter().filter(..).collect()`
RECURSIVE Matches(_, _, _, _)
Matches(list, participant, gateway_id, session_id) ==
    IF list = <<>> THEN <<>>
    ELSE (IF OfSession(Head(list), participant, gateway_id, session_id)
          THEN <<Head(list)>> ELSE <<>>)
         \o Matches(Tail(list), participant, gateway_id, session_id)

\* `for o in bid_matches.iter().chain(ask_matches.iter()) { self.cancel_order(o); }`
RECURSIVE CancelEach(_, _, _)
CancelEach(m, todo, events) ==
    IF todo = <<>> THEN [market |-> m, events |-> events]
    ELSE LET r == cancel_order(m, Head(todo))
         IN  CancelEach(MarketOf(r.bids, r.asks, r.order_id, r.instrument),
                        Tail(todo), events \o r.events)

\* the returned vector: (order id, instrument id, side) of every match; an
\* order's instrument is the instrument of the market it rests in
Cancelled(m, matches) ==
    [i \in 1..Len(matches) |->
        <<matches[i].id, m.instrument.id, matches[i].side>>]

\* Market::cancel_all_orders_for_session
cancel_all_orders_for_session(m, participant, gateway_id, session_id) ==
    LET bid_matches == Matches(m.bids, participant, gateway_id, session_id)
        ask_matches == Matches(m.asks, participant, gateway_id, session_id)
        r == CancelEach(m, bid_matches \o ask_matches, <<>>)
    IN  [market |-> r.market, events |-> r.events,
         cancelled |-> Cancelled(m, bid_matches \o ask_matches)]

\* variant: close publishes the Cancel of the bids only
CloseEvents_bids_only(m) ==
    [i \in 1..Len(m.bids) |-> CancelEvent(m.bids[i])]

\* the Cancel events of Market::close: one per resident order, bids first
CloseEvents(m) ==
    [i \in 1..(Len(m.bids) + Len(m.asks)) |-> CancelEvent((m.bids \o m.asks)[i])]

\* ------------------------------------------------------------------------
\* The state machine
\* ------------------------------------------------------------------------
Instruments ==
    [id : {InstrumentId}, state : InstrumentStates,
     percentage_bands : BandValues]

\* the order types a modify is tried with: the resting one and one other
ModifyTypes == {"Day", "Market"}

\* the orders a modify is called with: Order::new, then set_id
ModifyOrders ==
    {SetId(OrderNew(p, pr, q, s, t, g, ss), i) :
        p \in Participants, pr \in Prices, q \in Quantities, s \in Sides,
        t \in ModifyTypes, g \in Gateways, ss \in Sessions,
        i \in 1..MaxOrderId}

\* the orders process_message builds for Cancel: price 0, quantity 0, Day
CancelOrders ==
    {SetId(OrderNew(p, 0, 0, s, "Day", g, ss), i) :
        p \in Participants, s \in Sides, g \in Gateways, ss \in Sessions,
        i \in 1..MaxOrderId}

Self == MarketOf(bids, asks, order_id, instrument)

\* no call is in progress: the caller has taken the result of the last one
Idle == [op |-> "idle"]

NoResult == [state |-> "None"]

\* the gateway has accepted no connection
NoConnection ==
    /\ client_fd_to_session = <<>>
    /\ session_id_to_client_fd = <<>>
    /\ unread = <<>>
    /\ handled = <<>>
    /\ writes = <<>>

\* InstrumentList::new, an empty clearing buffer, MBOOepDisseminator::new
NoClearing ==
    /\ instrument_list = <<>>
    /\ cells = <<>>
    /\ clearing_buffer = <<>>
    /\ seq = 0
    /\ clearing_socket = <<>>
    /\ received = <<>>
    /\ applied = <<>>
    /\ feed_socket = <<>>

\* no matching engine and no gateway run beside the market
NoEngine ==
    /\ NoClearing
    /\ markets = <<>>
    /\ sessions = {}
    /\ order_socket = <<>>
    /\ ereports = <<>>
    /\ NoConnection

\* Market::new on an instrument received over the clearing protocol
Init ==
    /\ NoEngine
    /\ bids = <<>>
    /\ asks = <<>>
    /\ order_id = 0
    /\ instrument \in Instruments
    /\ call = Idle
    /\ ret = NoResult
    /\ published = <<>>
    /\ prev = MarketOf(<<>>, <<>>, 0, instrument)

\* the market after a call that returned outcome r
Becomes(r) ==
    /\ bids' = r.bids
    /\ asks' = r.asks
    /\ order_id' = r.order_id
    /\ instrument' = r.instrument
    /\ published' = r.events
    /\ prev' = Self
    /\ UNCHANGED <<engine_vars, gateway_vars>>

AddOrder(o) ==
    /\ call = Idle
    /\ order_id < MaxOrderId
    /\ LET r == add_order(Self, o)
       IN  /\ Becomes(r)
           /\ ret' = [state |-> r.state, id |-> r.id]
    /\ call' = [op |-> "add_order", order |-> o]

ModifyOrder(o) ==
    /\ call = Idle
    /\ order_id < MaxOrderId
    /\ LET r == modify_order(Self, o)
       IN  /\ Becomes(r)
           /\ ret' = [state |-> r.state, id |-> r.id]
    /\ call' = [op |-> "modify_order", order |-> o]

CancelOrder(o) ==
    /\ call = Idle
    /\ LET r == cancel_order(Self, o)
       IN  /\ Becomes(r)
           /\ ret' = [state |-> r.state]
    /\ call' = [op |-> "cancel_order", order |-> o]

CancelAllOrdersForSession(participant, gateway_id, session_id) ==
    /\ call = Idle
    /\ LET r == cancel_all_orders_for_session(Self, participant, gateway_id,
                                              session_id)
       IN  /\ bids' = r.market.bids
           /\ asks' = r.market.asks
           /\ published' = r.events
           /\ ret' = [state |-> "None", cancelled |-> r.cancelled]
    /\ call' = [op |-> "cancel_all_orders_for_session",
                participant |-> participant, gateway_id |-> gateway_id,
                session_id |-> session_id]
    /\ prev' = Self
    /\ UNCHANGED <<order_id, instrument>>
    /\ UNCHANGED <<engine_vars, gateway_vars>>

\* Market::close
Close ==
    /\ call = Idle
    /\ instrument' = [instrument EXCEPT !.state = "Closed"]
    /\ published' = CloseEvents(Self)
    /\ bids' = <<>>
    /\ asks' = <<>>
    /\ call' = [op |-> "close"]
    /\ ret' = NoResult
    /\ prev' = Self
    /\ UNCHANGED order_id
    /\ UNCHANGED <<engine_vars, gateway_vars>>

\* ClearProtocol::process_one_data_entry, InstrumentUpdate of the known
\* instrument: InstrumentList::add_instrument overwrites the shared
\* Instrument in place; Market::instrument_updated does nothing
InstrumentUpdate(i) ==
    /\ call = Idle
    /\ instrument' = i
    /\ call' = [op |-> "instrument_update"]
    /\ ret' = NoResult
    /\ published' = <<>>
    /\ prev' = Self
    /\ UNCHANGED <<bids, asks, order_id>>
    /\ UNCHANGED <<engine_vars, gateway_vars>>

\* the call is over: the caller (process_message, the reactor loop) has
\* used the returned value and goes on to the next message
Return ==
    /\ call # Idle
    /\ ret.state # "Panicked"
    /\ call' = Idle
    /\ ret' = NoResult
    /\ published' = <<>>
    /\ prev' = Self
    /\ UNCHANGED <<bids, asks, order_id, instrument>>
    /\ UNCHANGED <<engine_vars, gateway_vars>>

Next ==
    \/ \E o \in NewOrders : AddOrder(o)
    \/ \E o \in ModifyOrders : ModifyOrder(o)
    \/ \E o \in CancelOrders : CancelOrder(o)
    \/ \E p \in Participants, g \in Gateways, s \in Sessions :
            CancelAllOrdersForSession(p, g, s)
    \/ Close
    \/ \E i \in Instruments : InstrumentUpdate(i)
    \/ Return

Spec == Init /\ [][Next]_vars

\* the instrument is received in the Trading state and not updated
InitOwners == Init /\ instrument.state = "Trading"

\* ------------------------------------------------------------------------
\* The market on a feed whose socket refuses a datagram: the send_* of the
\* Disseminator returns Err and publish_* unwraps it
\* ------------------------------------------------------------------------

\* `.unwrap()` on Err: the thread panics with the market as it stands at
\* that publish_*; nothing is returned and no event has gone out
Panicked(m) == Outcome(m, "Panicked", 0, <<>>)

\* add_order when the first send of the call fails: the first publish is
\* the Trade of the first fill (the passive head is already reduced, the
\* incoming order is not yet inserted) or, without a fill, the NewOrder
\* (the order is already inserted)
add_order_feed_down(m, order) ==
    LET r == add_order(m, order)
        m1 == [m EXCEPT !.order_id = NextOrderId(m)]
        o == SetId(order, m1.order_id)
        opp == IF o.side = "Bid" THEN m.asks ELSE m.bids
        reduced == MassagePassive(opp, TradeVolume(opp, o))
    IN  IF r.events = <<>> THEN r
        ELSE IF Head(r.events).kind = "Trade"
        THEN Panicked(WithSide(m1, IF o.side = "Bid" THEN "Ask" ELSE "Bid",
                               reduced))
        ELSE Panicked(MarketOf(r.bids, r.asks, r.order_id, r.instrument))

\* modify_order when the first send fails: the Modify is published after
\* the quantity is replaced, the Cancel before the old order is removed
modify_order_feed_down(m, o) ==
    LET r == modify_order(m, o)
    IN  IF r.events = <<>> THEN r
        ELSE IF Head(r.events).kind = "Modify"
        THEN Panicked(MarketOf(r.bids, r.asks, r.order_id, r.instrument))
        ELSE Panicked(m)

\* cancel_order when the send fails: the order is removed, then published
cancel_order_feed_down(m, o) ==
    LET r == cancel_order(m, o)
    IN  IF r.events = <<>> THEN r
        ELSE Panicked(MarketOf(r.bids, r.asks, r.order_id, r.instrument))

\* one owner, orders that rest and orders that trade
FeedNewOrders ==
    {OrderNew(1, pr, q, s, t, 1, 1) :
        pr \in {1000, 1001}, q \in {100, 200}, s \in Sides,
        t \in {"Day", "Market"}}

FeedModifyOrders ==
    {SetId(OrderNew(1, pr, 200, s, "Day", 1, 1), i) :
        pr \in {1000, 1001}, s \in Sides, i \in 1..MaxOrderId}

AddOrderFeedDown(o) ==
    /\ call = Idle
    /\ order_id < MaxOrderId
    /\ LET r == add_order_feed_down(Self, o)
       IN  /\ r.state = "Panicked"
           /\ Becomes(r)
           /\ ret' = [state |-> r.state, id |-> r.id]
    /\ call' = [op |-> "add_order", order |-> o, feed |-> "down"]

ModifyOrderFeedDown(o) ==
    /\ call = Idle
    /\ order_id < MaxOrderId
    /\ LET r == modify_order_feed_down(Self, o)
       IN  /\ r.state = "Panicked"
           /\ Becomes(r)
           /\ ret' = [state |-> r.state, id |-> r.id]
    /\ call' = [op |-> "modify_order", order |-> o, feed |-> "down"]

CancelOrderFeedDown(o) ==
    /\ call = Idle
    /\ LET r == cancel_order_feed_down(Self, o)
       IN  /\ r.state = "Panicked"
           /\ Becomes(r)
           /\ ret' = [state |-> r.state]
    /\ call' = [op |-> "cancel_order", order |-> o, feed |-> "down"]

\* Market::close when the first send_cancel_order fails: the instrument is
\* already Closed, the sides are not yet cleared
CloseFeedDown ==
    /\ call = Idle
    /\ bids \o asks # <<>>
    /\ instrument' = [instrument EXCEPT !.state = "Closed"]
    /\ published' = <<>>
    /\ call' = [op |-> "close", feed |-> "down"]
    /\ ret' = [state |-> "Panicked"]
    /\ prev' = Self
    /\ UNCHANGED <<bids, asks, order_id>>
    /\ UNCHANGED <<engine_vars, gateway_vars>>

NextFeed ==
    \/ \E o \in FeedNewOrders : AddOrder(o)
    \/ \E o \in FeedModifyOrders : ModifyOrder(o)
    \/ \E o \in CancelOrders : CancelOrder(o)
    \/ Close
    \/ Return
    \/ \E o \in FeedNewOrders : AddOrderFeedDown(o)
    \/ \E o \in FeedModifyOrders : ModifyOrderFeedDown(o)
    \/ \E o \in CancelOrders : CancelOrderFeedDown(o)
    \/ CloseFeedDown

SpecFeed == InitOwners /\ [][NextFeed]_vars

\* ------------------------------------------------------------------------
\* The same market driven by several owners: sessions that differ from the
\* first one in the participant, in the gateway or in the session id
\* ------------------------------------------------------------------------

\* (participant, gateway_id, session_id)
Owners == {<<1, 1, 1>>, <<2, 1, 1>>, <<1, 2, 1>>, <<1, 1, 2>>}

\* every owner's resting orders: bids at 1000, asks at 1001
OwnerNewOrders ==
    {OrderNew(w[1], IF s = "Bid" THEN 1000 ELSE 1001, 100, s, "Day",
              w[2], w[3]) : w \in Owners, s \in Sides}

\* modifies of any owner: to a quantity of 200 at the prices 0, 1000 and
\* 1001, to a quantity of 0, and under another order type
OwnerModifyOrders ==
    {SetId(OrderNew(w[1], c[1], c[2], s, c[3], w[2], w[3]), i) :
        w \in Owners, s \in Sides, i \in 1..MaxOrderId,
        c \in {<<0, 200, "Day">>, <<1000, 200, "Day">>, <<1001, 200, "Day">>,
               <<1000, 0, "Day">>, <<1000, 200, "Market">>}}

OwnerCancelOrders ==
    {SetId(OrderNew(w[1], 0, 0, s, "Day", w[2], w[3]), i) :
        w \in Owners, s \in Sides, i \in 1..MaxOrderId}

NextOwners ==
    \/ \E o \in OwnerNewOrders : AddOrder(o)
    \/ \E o \in OwnerModifyOrders : ModifyOrder(o)
    \/ \E o \in OwnerCancelOrders : CancelOrder(o)
    \/ \E w \in Owners : CancelAllOrdersForSession(w[1], w[2], w[3])
    \/ Close
    \/ Return

SpecOwners == InitOwners /\ [][NextOwners]_vars

\* ------------------------------------------------------------------------
\* The gateway and the matching engine: clients log in at the gateway, the
\* gateway relays their orders as datagrams to the order group, the engine
\* reads one datagram at a time and processes it in the book it names
\* ------------------------------------------------------------------------

\* the most datagrams sent and not yet read
MaxInFlight == 1

\* the most order ids a book of the engine hands out
MaxBookOrders == 2

\* the books of the engine, by instrument id
BookIds == {0, InstrumentId}

\* the gateway_id of the gateway's configuration
GatewayIds == {1}

\* (participant, session_id) of the clients that log in
Logins == {<<111, 2>>, <<112, 3>>}

\* ConnectedSession: participant and session_id of a logged-in connection
Session(l) == [participant |-> l[1], session_id |-> l[2]]

\* oep::neworder::NewOrder as the client sends it
NewOrderMessage(participant, session_id, gateway_id, book_id, side) ==
    [kind |-> "NewOrder", client_order_id |-> 100, participant |-> participant,
     book_id |-> book_id, quantity |-> 100,
     price |-> IF side = "Bid" THEN 197 ELSE 200, order_type |-> "Day",
     side |-> side, gateway_id |-> gateway_id, session_id |-> session_id]

\* oep::modify::Modify
ModifyMessage(participant, session_id, gateway_id, book_id, side, id) ==
    [kind |-> "Modify", participant |-> participant, order_id |-> id,
     book_id |-> book_id, quantity |-> 200,
     price |-> IF side = "Bid" THEN 197 ELSE 200, side |-> side,
     gateway_id |-> gateway_id, session_id |-> session_id]

\* oep::cancel::Cancel
CancelMessage(participant, session_id, gateway_id, book_id, side, id) ==
    [kind |-> "Cancel", participant |-> participant, order_id |-> id,
     book_id |-> book_id, side |-> side, gateway_id |-> gateway_id,
     session_id |-> session_id]

\* oep::sessioninfo::SessionInfo
SessionInfoMessage(participant, session_id, gateway_id) ==
    [kind |-> "KillSession", participant |-> participant,
     session_id |-> session_id, gateway_id |-> gateway_id]

\* what a logged-in client sends on its connection
ClientMessages(participant, session_id) ==
    {NewOrderMessage(participant, session_id, g, b, sd) :
        g \in GatewayIds, b \in BookIds, sd \in Sides}
    \cup {ModifyMessage(participant, session_id, g, InstrumentId, "Bid", 1) :
        g \in GatewayIds}
    \cup {CancelMessage(participant, session_id, g, b, "Bid", 1) :
        g \in GatewayIds, b \in BookIds}

\* decode_message: the message and the book id the dispatch looks up
decode_message(d) == IF d.kind = "KillSession" THEN 0 ELSE d.book_id

\* oep::execution_report::ExecutionReport
ExecutionReport(m, id, submitted, quantity, price, state) ==
    [participant |-> m.participant, order_id |-> id,
     submitted_order_id |-> submitted, book |-> m.book_id,
     quantity |-> quantity, price |-> price, flags |-> 0, side |-> m.side,
     state |-> state, gateway_id |-> m.gateway_id,
     session_id |-> m.session_id]

\* the report of one order a session cancel removed
KillReport(m, i) ==
    [participant |-> m.participant, order_id |-> i[1],
     submitted_order_id |-> i[1], book |-> i[2], quantity |-> 0, price |-> 0,
     flags |-> 0, side |-> i[3], state |-> "Cancelled",
     session_id |-> m.session_id, gateway_id |-> m.gateway_id]

\* a variant that lets participant 0 through
WrongBook_only(market, m) ==
    market.instrument.id # m.book_id

\* `get_id() != m.book_id || m.get_participant() == 0`
WrongBookOrNobody(market, m) ==
    market.instrument.id # m.book_id \/ m.participant = 0

\* what process_message leaves: the market, the reports, the feed events
Processed(r, reports) ==
    [market |-> MarketOf(r.bids, r.asks, r.order_id, r.instrument),
     reports |-> reports, events |-> r.events]

\* process_message: one datagram in the market the dispatch found
process_message(market, m) ==
    IF m.kind = "NewOrder"
    THEN IF WrongBookOrNobody(market, m)
         THEN Processed(Rejected(market),
                        <<ExecutionReport(m, m.client_order_id,
                                          m.client_order_id, m.quantity,
                                          m.price, "Rejected")>>)
         ELSE LET r == add_order(market,
                                 OrderNew(m.participant, m.price, m.quantity,
                                          m.side, m.order_type, m.gateway_id,
                                          m.session_id))
              IN  Processed(r, <<ExecutionReport(m, r.id, m.client_order_id,
                                                 m.quantity, m.price,
                                                 r.state)>>)
    ELSE IF m.kind = "Modify"
    THEN IF WrongBookOrNobody(market, m)
         THEN Processed(Rejected(market),
                        <<ExecutionReport(m, m.order_id, m.order_id,
                                          m.quantity, m.price, "Rejected")>>)
         ELSE LET r == modify_order(market,
                                    SetId(OrderNew(m.participant, m.price,
                                                   m.quantity, m.side, "Day",
                                                   m.gateway_id,
                                                   m.session_id),
                                          m.order_id))
              IN  Processed(r, <<ExecutionReport(m, r.id, m.order_id,
                                                 m.quantity, m.price,
                                                 r.state)>>)
    ELSE IF m.kind = "Cancel"
    THEN IF WrongBookOrNobody(market, m)
         THEN Processed(Rejected(market),
                        <<ExecutionReport(m, m.order_id, m.order_id, 0, 0,
                                          "Rejected")>>)
         ELSE LET r == cancel_order(market,
                                    SetId(OrderNew(m.participant, 0, 0,
                                                   m.side, "Day",
                                                   m.gateway_id,
                                                   m.session_id),
                                          m.order_id))
              IN  Processed(r, <<ExecutionReport(m, m.order_id, m.order_id,
                                                 0, 0, r.state)>>)
    ELSE LET v == cancel_all_orders_for_session(market, m.participant,
                                                m.gateway_id, m.session_id)
         IN  [market |-> v.market,
              reports |-> [i \in 1..Len(v.cancelled) |->
                              KillReport(m, v.cancelled[i])],
              events |-> v.events]

\* the engine starts with one empty book per instrument of the clearing
\* list, all trading; no client is connected
InitEngine ==
    /\ markets = [b \in BookIds |->
                    MarketOf(<<>>, <<>>, 0,
                             [id |-> b, state |-> "Trading",
                              percentage_bands |-> 10])]
    /\ sessions = {}
    /\ order_socket = <<>>
    /\ ereports = <<>>
    /\ NoConnection
    /\ NoClearing
    /\ bids = <<>>
    /\ asks = <<>>
    /\ order_id = 0
    /\ instrument = [id |-> InstrumentId, state |-> "Trading",
                     percentage_bands |-> 10]
    /\ call = Idle
    /\ ret = NoResult
    /\ published = <<>>
    /\ prev = markets

\* the one market of the first part and the connection table of the
\* gateway are not used by the engine
NoMarket ==
    UNCHANGED <<bids, asks, order_id, instrument, ret, gateway_vars,
                clearing_vars>>

\* a step outside the engine: no call on a market, nothing published
GatewayStep ==
    /\ call' = Idle
    /\ published' = <<>>
    /\ ereports' = <<>>
    /\ prev' = markets
    /\ NoMarket

\* gateway: a Login on a fresh connection passes check_login; the session
\* is stored under its session id
Login(participant, session_id) ==
    /\ \A x \in sessions : x.session_id # session_id
    /\ sessions' = sessions \cup {Session(<<participant, session_id>>)}
    /\ GatewayStep
    /\ UNCHANGED <<markets, order_socket>>

\* gateway: a message of a logged-in session that names this gateway, the
\* session and its participant is put into the response buffer and sent to
\* the order group (relay_message, then sender.send)
Relay(session, g, m) ==
    /\ session \in sessions
    /\ Len(order_socket) < MaxInFlight
    /\ m.gateway_id = g
    /\ m.session_id = session.session_id
    /\ m.participant = session.participant
    /\ m.kind \in {"NewOrder", "Modify"} =>
          markets[m.book_id].order_id < MaxBookOrders
    /\ order_socket' = Append(order_socket, m)
    /\ GatewayStep
    /\ UNCHANGED <<markets, sessions>>

\* gateway: the connection is closed or its read returned 0:
\* ConnectionFactory::delete_socket forgets the session; nothing is sent
DeleteSocket(session, g) ==
    /\ session \in sessions
    /\ sessions' = sessions \ {session}
    /\ call' = [op |-> "delete_socket", participant |-> session.participant,
                session_id |-> session.session_id, gateway_id |-> g]
    /\ published' = <<>>
    /\ ereports' = <<>>
    /\ prev' = markets
    /\ UNCHANGED <<markets, order_socket>>
    /\ NoMarket

\* a SessionInfo datagram is sent to the order group
SessionNotification(participant, session_id, g) ==
    /\ Len(order_socket) < MaxInFlight
    /\ order_socket' =
          Append(order_socket, SessionInfoMessage(participant, session_id, g))
    /\ GatewayStep
    /\ UNCHANGED <<markets, sessions>>

\* engine: the order socket is readable: read one datagram, decode it, look
\* the book up by the decoded book id, process the message there and send
\* the execution reports; without such a book the datagram is dropped
OrderSocketReadable ==
    /\ order_socket # <<>>
    /\ LET m == Head(order_socket)
           book_id == decode_message(m)
       IN  /\ IF book_id \in DOMAIN markets
              THEN LET r == process_message(markets[book_id], m)
                   IN  /\ markets' = [markets EXCEPT ![book_id] = r.market]
                       /\ ereports' = r.reports
                       /\ published' = r.events
              ELSE /\ ereports' = <<>>
                   /\ published' = <<>>
                   /\ UNCHANGED markets
           /\ call' = [op |-> "order_socket", msg |-> m]
    /\ order_socket' = Tail(order_socket)
    /\ prev' = markets
    /\ UNCHANGED sessions
    /\ NoMarket

NextEngine ==
    \/ \E l \in Logins : Login(l[1], l[2])
    \/ \E l \in Logins, g \in GatewayIds :
          \E m \in ClientMessages(l[1], l[2]) : Relay(Session(l), g, m)
    \/ \E l \in Logins, g \in GatewayIds : DeleteSocket(Session(l), g)
    \/ \E l \in Logins, g \in GatewayIds : SessionNotification(l[1], l[2], g)
    \/ OrderSocketReadable

\* the engine's poller is level-triggered: a datagram that waits on the
\* order socket is read
SpecEngine == InitEngine /\ [][NextEngine]_vars /\ WF_vars(OrderSocketReadable)

\* ------------------------------------------------------------------------
\* process_message called on one Market with whatever message was decoded,
\* as the tests of the processor call it: the message may name another
\* book or participant 0
\* ------------------------------------------------------------------------

\* a book id that is not the one of the market's instrument
OtherBookId == 1001

\* the participants a decoded message names: nobody, or the one client
MessageParticipants == {0, 1}

\* the messages process_message is called with
ProcessMessages ==
    {NewOrderMessage(p, 1, 1, b, sd) :
        p \in MessageParticipants, b \in {InstrumentId, OtherBookId},
        sd \in Sides}
    \cup {ModifyMessage(p, 1, 1, b, sd, i) :
        p \in MessageParticipants, b \in {InstrumentId, OtherBookId},
        sd \in Sides, i \in 1..MaxOrderId}
    \cup {CancelMessage(p, 1, 1, b, sd, i) :
        p \in MessageParticipants, b \in {InstrumentId, OtherBookId},
        sd \in Sides, i \in 1..MaxOrderId}
    \cup {SessionInfoMessage(p, 1, 1) : p \in MessageParticipants}

\* process_message(&mut market, msg) and the reports it returns
ProcessMessage(m) ==
    /\ call = Idle
    /\ order_id < MaxOrderId
    /\ LET r == process_message(Self, m)
       IN  /\ bids' = r.market.bids
           /\ asks' = r.market.asks
           /\ order_id' = r.market.order_id
           /\ instrument' = r.market.instrument
           /\ ereports' = r.reports
           /\ published' = r.events
    /\ call' = [op |-> "process_message", msg |-> m]
    /\ ret' = NoResult
    /\ prev' = Self
    /\ UNCHANGED <<markets, sessions, order_socket, gateway_vars,
                   clearing_vars>>

\* the caller has sent the reports
Reported ==
    /\ call # Idle
    /\ call' = Idle
    /\ ereports' = <<>>
    /\ published' = <<>>
    /\ ret' = NoResult
    /\ prev' = Self
    /\ UNCHANGED <<bids, asks, order_id, instrument>>
    /\ UNCHANGED <<markets, sessions, order_socket, gateway_vars,
                   clearing_vars>>

NextProcess ==
    \/ \E m \in ProcessMessages : ProcessMessage(m)
    \/ Reported

SpecProcess == InitOwners /\ [][NextProcess]_vars

\* ------------------------------------------------------------------------
\* The wire: the packed little-endian structs of the order entry protocol
\* (OEP), the 8-byte OEP header between client and gateway, the 4-byte
\* local header between gateway and matching engine
\* ------------------------------------------------------------------------
OEP_VERSION == 1

OEP_HEADER_SIZE == 8

NEWORDER_SIZE == 48

MODIFY_SIZE == 46

CANCEL_SIZE == 30

EXECUTIONREPORT_SIZE == 57

LOGIN_SIZE == 144

SESSIONINFO_SIZE == 13

\* the engine's `static HEADER_SIZE`
HEADER_SIZE == 4

\* an integer field of n bytes, least significant byte first
RECURSIVE LE(_, _)
LE(v, n) == IF n = 0 THEN <<>> ELSE <<v % 256>> \o LE(v \div 256, n - 1)

\* the integer a little-endian field holds
RECURSIVE FromLE(_)
FromLE(b) == IF b = <<>> THEN 0 ELSE Head(b) + 256 * FromLE(Tail(b))

\* n bytes of b from offset `from` (0-based), as buffer[from..from + n]
Slice(b, from, n) == SubSeq(b, from + 1, from + n)

\* the integer field of n bytes at offset `from`
Field(b, from, n) == FromLE(Slice(b, from, n))

\* `[0; n]`
RECURSIVE Zeros(_)
Zeros(n) == IF n = 0 THEN <<>> ELSE <<0>> \o Zeros(n - 1)

\* impl Into<u8> for Side
SideIntoU8(s) == IF s = "Bid" THEN 0 ELSE 1

\* impl From<u8> for Side
SideFromU8(v) == IF v = 0 THEN "Bid" ELSE "Ask"

OrderTypeNames ==
    <<"Day", "Market", "FillAndKill", "FillOrKill", "PostOrKill",
      "GoodTillCancel", "GoodTillDate", "StopLoss", "StopLimit">>

\* impl Into<u16> for OrderType
OrderTypeIntoU16(t) ==
    CHOOSE v \in 0..(Len(OrderTypeNames) - 1) : OrderTypeNames[v + 1] = t

\* impl From<u16> for OrderType
OrderTypeFromU16(v) ==
    IF v < Len(OrderTypeNames) THEN OrderTypeNames[v + 1] ELSE "StopLimit"

OrderStateNames ==
    <<"Inserted", "Modified", "Cancelled", "Rejected", "Traded",
      "PartiallyTraded">>

\* impl Into<u8> for OrderState
OrderStateIntoU8(s) ==
    CHOOSE v \in 0..(Len(OrderStateNames) - 1) : OrderStateNames[v + 1] = s

\* impl From<u16> for MsgType
MsgTypeFromU16(v) ==
    IF v = 0 THEN "NewOrder"
    ELSE IF v = 1 THEN "Modify"
    ELSE IF v = 2 THEN "Cancel"
    ELSE IF v = 3 THEN "ExecutionReport"
    ELSE IF v = 4 THEN "Login"
    ELSE IF v = 5 THEN "Trade"
    ELSE IF v = 6 THEN "SessionNotification"
    ELSE "Unknown"

\* a variant that does not know the Login
message_type_without_login(msg_type) ==
    IF msg_type = 0 THEN "NewOrder"
    ELSE IF msg_type = 1 THEN "Modify"
    ELSE IF msg_type = 2 THEN "Cancel"
    ELSE IF msg_type = 3 THEN "ExecutionReport"
    ELSE "Unknown"

\* OepHeader::message_type
message_type(msg_type) ==
    IF msg_type = 0 THEN "NewOrder"
    ELSE IF msg_type = 1 THEN "Modify"
    ELSE IF msg_type = 2 THEN "Cancel"
    ELSE IF msg_type = 3 THEN "ExecutionReport"
    ELSE IF msg_type = 4 THEN "Login"
    ELSE "Unknown"

\* OepMessage::message_len
message_len(t) ==
    IF t = "Cancel" THEN CANCEL_SIZE
    ELSE IF t = "ExecutionReport" THEN EXECUTIONREPORT_SIZE
    ELSE IF t = "Login" THEN LOGIN_SIZE
    ELSE IF t = "Modify" THEN MODIFY_SIZE
    ELSE IF t = "NewOrder" THEN NEWORDER_SIZE
    ELSE SESSIONINFO_SIZE

\* OepHeader::encode
EncodeHeader(oep_version, msg_type, msg_len) ==
    LE(oep_version, 2) \o LE(msg_type, 2) \o LE(msg_len, 4)

\* OepHeader::decode
DecodeHeader(b) ==
    [oep_version |-> Field(b, 0, 2), msg_type |-> Field(b, 2, 2),
     msg_len |-> Field(b, 4, 4)]

\* NewOrder::encode
EncodeNewOrder(m) ==
    LE(m.client_order_id, 8) \o LE(m.participant, 8) \o LE(m.book_id, 8)
    \o LE(m.quantity, 8) \o LE(m.price, 8)
    \o LE(OrderTypeIntoU16(m.order_type), 2) \o <<SideIntoU8(m.side)>>
    \o <<m.gateway_id>> \o LE(m.session_id, 4)

\* NewOrder::decode; the order_type and side are read as process_message
\* reads them, with `.into()`
DecodeNewOrder(b) ==
    [kind |-> "NewOrder", client_order_id |-> Field(b, 0, 8),
     participant |-> Field(b, 8, 8), book_id |-> Field(b, 16, 8),
     quantity |-> Field(b, 24, 8), price |-> Field(b, 32, 8),
     order_type |-> OrderTypeFromU16(Field(b, 40, 2)),
     side |-> SideFromU8(b[43]), gateway_id |-> b[44],
     session_id |-> Field(b, 44, 4)]

\* Modify::encode
EncodeModify(m) ==
    LE(m.participant, 8) \o LE(m.order_id, 8) \o LE(m.book_id, 8)
    \o LE(m.quantity, 8) \o LE(m.price, 8) \o <<SideIntoU8(m.side)>>
    \o <<m.gateway_id>> \o LE(m.session_id, 4)

\* Modify::decode
DecodeModify(b) ==
    [kind |-> "Modify", participant |-> Field(b, 0, 8),
     order_id |-> Field(b, 8, 8), book_id |-> Field(b, 16, 8),
     quantity |-> Field(b, 24, 8), price |-> Field(b, 32, 8),
     side |-> SideFromU8(b[41]), gateway_id |-> b[42],
     session_id |-> Field(b, 42, 4)]

\* Cancel::encode
EncodeCancel(m) ==
    LE(m.participant, 8) \o LE(m.order_id, 8) \o LE(m.book_id, 8)
    \o <<SideIntoU8(m.side)>> \o <<m.gateway_id>> \o LE(m.session_id, 4)

\* Cancel::decode
DecodeCancel(b) ==
    [kind |-> "Cancel", participant |-> Field(b, 0, 8),
     order_id |-> Field(b, 8, 8), book_id |-> Field(b, 16, 8),
     side |-> SideFromU8(b[25]), gateway_id |-> b[26],
     session_id |-> Field(b, 26, 4)]

\* SessionInfo::encode
EncodeSessionInfo(m) ==
    LE(m.participant, 8) \o LE(m.session_id, 4) \o <<m.gateway_id>>

\* SessionInfo::decode
DecodeSessionInfo(b) ==
    [kind |-> "KillSession", participant |-> Field(b, 0, 8),
     session_id |-> Field(b, 8, 4), gateway_id |-> b[13]]

\* ExecutionReport::encode
EncodeExecutionReport(e) ==
    LE(e.participant, 8) \o LE(e.order_id, 8) \o LE(e.submitted_order_id, 8)
    \o LE(e.book, 8) \o LE(e.quantity, 8) \o LE(e.price, 8) \o LE(e.flags, 2)
    \o <<SideIntoU8(e.side)>> \o <<OrderStateIntoU8(e.state)>>
    \o LE(e.session_id, 4) \o <<e.gateway_id>>

\* the OrderState a state byte of an execution report stands for
OrderStateOfU8(v) ==
    IF v < Len(OrderStateNames) THEN OrderStateNames[v + 1] ELSE v

\* ExecutionReport::decode
DecodeExecutionReport(b) ==
    [kind |-> "ExecutionReport", participant |-> Field(b, 0, 8),
     order_id |-> Field(b, 8, 8), submitted_order_id |-> Field(b, 16, 8),
     book |-> Field(b, 24, 8), quantity |-> Field(b, 32, 8),
     price |-> Field(b, 40, 8), flags |-> Field(b, 48, 2),
     side |-> SideFromU8(b[51]), state |-> OrderStateOfU8(b[52]),
     session_id |-> Field(b, 52, 4), gateway_id |-> b[57]]

\* Login::new: participant, session_id, gateway_id, three bytes of padding,
\* the user name and the password hash in 64 bytes each
LoginMessage(participant, session_id, gateway_id, user, password) ==
    [kind |-> "Login", participant |-> participant,
     session_id |-> session_id, gateway_id |-> gateway_id,
     user |-> user \o Zeros(64 - Len(user)), password |-> password]

\* Login::encode
EncodeLogin(m) ==
    LE(m.participant, 8) \o LE(m.session_id, 4) \o <<m.gateway_id>>
    \o Zeros(3) \o m.user \o m.password

\* Login::decode
DecodeLogin(b) ==
    [kind |-> "Login", participant |-> Field(b, 0, 8),
     session_id |-> Field(b, 8, 4), gateway_id |-> b[13],
     user |-> Slice(b, 16, 64), password |-> Slice(b, 80, 64)]

\* Result::Err of the given kind
Err(kind) == [state |-> kind]

\* Result::Ok
Ok(msg) == [state |-> "Ok", msg |-> msg]

\* `buffer[OEP_HEADER_SIZE..].try_into()` into an array of the size of the
\* struct and the struct's decode: the slice must have exactly that size
Inner(buffer, size, msg) ==
    IF Len(buffer) - OEP_HEADER_SIZE = size THEN Ok(msg) ELSE Err("InvalidData")

\* oep_decode: one OEP frame from the start of the buffer
oep_decode(buffer) ==
    IF Len(buffer) < OEP_HEADER_SIZE THEN Err("UnexpectedEof")
    ELSE LET header == DecodeHeader(Slice(buffer, 0, OEP_HEADER_SIZE))
             t == message_type(header.msg_type)
             inner == Slice(buffer, OEP_HEADER_SIZE,
                            Len(buffer) - OEP_HEADER_SIZE)
         IN  IF Len(buffer) < header.msg_len + OEP_HEADER_SIZE
             THEN Err("UnexpectedEof")
             ELSE IF t = "Login"
             THEN Inner(buffer, LOGIN_SIZE, DecodeLogin(inner))
             ELSE IF t = "NewOrder"
             THEN Inner(buffer, NEWORDER_SIZE, DecodeNewOrder(inner))
             ELSE IF t = "Modify"
             THEN Inner(buffer, MODIFY_SIZE, DecodeModify(inner))
             ELSE IF t = "Cancel"
             THEN Inner(buffer, CANCEL_SIZE, DecodeCancel(inner))
             ELSE IF t = "ExecutionReport"
             THEN Inner(buffer, EXECUTIONREPORT_SIZE,
                        DecodeExecutionReport(inner))
             ELSE IF t = "Trade" THEN Err("Unsupported")
             ELSE Err("InvalidInput")

\* the OEP type number of each kind of message
KindIntoU16(kind) ==
    IF kind = "NewOrder" THEN 0
    ELSE IF kind = "Modify" THEN 1
    ELSE IF kind = "Cancel" THEN 2
    ELSE IF kind = "ExecutionReport" THEN 3
    ELSE IF kind = "Login" THEN 4
    ELSE 6

\* the struct's encode
Encode(m) ==
    IF m.kind = "NewOrder" THEN EncodeNewOrder(m)
    ELSE IF m.kind = "Modify" THEN EncodeModify(m)
    ELSE IF m.kind = "Cancel" THEN EncodeCancel(m)
    ELSE IF m.kind = "ExecutionReport" THEN EncodeExecutionReport(m)
    ELSE IF m.kind = "Login" THEN EncodeLogin(m)
    ELSE EncodeSessionInfo(m)

\* a frame as a client or the engine sends it: the OEP header with the
\* given type and the length of the payload, then the payload
Frame(msg_type, payload) ==
    EncodeHeader(OEP_VERSION, msg_type, Len(payload)) \o payload

\* the frame of message m
FrameOf(m) == Frame(KindIntoU16(m.kind), Encode(m))

\* a variant that stamps a Cancel with the type byte of a Modify
RelayEncoding_cancel_as_modify(kind) ==
    IF kind = "NewOrder" THEN 0 ELSE 1

\* the type byte the gateway puts in front of a relayed message
\* (relay_message!(message, Cancel, 2) and so on)
RelayEncoding(kind) ==
    IF kind = "NewOrder" THEN 0 ELSE IF kind = "Modify" THEN 1 ELSE 2

\* relay_message: the 4-byte local header and the encoded message
relay_message(m) == <<RelayEncoding(m.kind), 0, 0, 0>> \o Encode(m)

\* a datagram with local header type byte t
Datagram(t, payload) == <<t, 0, 0, 0>> \o payload

\* the `assert_eq!(HEADER_SIZE + SIZE, buffer.len())` of decode_message and
\* the decode of the payload
Sized(buffer, size, msg, book_id) ==
    IF HEADER_SIZE + size = Len(buffer)
    THEN [state |-> "Ok", msg |-> msg, book_id |-> book_id]
    ELSE Err("Panicked")

\* decode_message on the bytes of a datagram: the message and the book id
decode_message_bytes(buffer) ==
    LET t == MsgTypeFromU16(buffer[1])
        payload == Slice(buffer, HEADER_SIZE, Len(buffer) - HEADER_SIZE)
    IN  IF t = "NewOrder"
        THEN Sized(buffer, NEWORDER_SIZE, DecodeNewOrder(payload),
                   DecodeNewOrder(payload).book_id)
        ELSE IF t = "Modify"
        THEN Sized(buffer, MODIFY_SIZE, DecodeModify(payload),
                   DecodeModify(payload).book_id)
        ELSE IF t = "Cancel"
        THEN Sized(buffer, CANCEL_SIZE, DecodeCancel(payload),
                   DecodeCancel(payload).book_id)
        ELSE IF t = "SessionNotification"
        THEN Sized(buffer, SESSIONINFO_SIZE, DecodeSessionInfo(payload), 0)
        ELSE Err("InvalidMessageType")

\* ------------------------------------------------------------------------
\* The decoders alone: oep_decode on every prefix of a frame, and the
\* engine's decode_message on the datagrams of the order group
\* ------------------------------------------------------------------------

\* the user name "test" of the tests' Login
TestUser == <<116, 101, 115, 116>>

\* a password hash: 64 bytes
RECURSIVE Hash(_, _)
Hash(v, n) == IF n = 0 THEN <<>> ELSE <<v>> \o Hash(v, n - 1)

\* the messages of the order pipe, one and more of each type
PipeMessages ==
    {NewOrderMessage(111, 2, 1, InstrumentId, sd) : sd \in Sides}
    \cup {ModifyMessage(111, 2, 1, InstrumentId, "Bid", 1),
          CancelMessage(111, 2, 1, InstrumentId, "Ask", 2),
          LoginMessage(1, 2, 1, TestUser, Hash(7, 64)),
          [kind |-> "ExecutionReport"] @@
              ExecutionReport(NewOrderMessage(111, 2, 1, InstrumentId, "Bid"),
                              1, 100, 100, 197, "Inserted")}

\* what a client may relay through the gateway
RelayedKinds == {"NewOrder", "Modify", "Cancel"}

\* the type numbers oep_decode has no struct for: Trade,
\* SessionNotification and one that is no type at all
OtherTypes == {5, 6, 7}

\* the type bytes a SessionInfo datagram is tried with
SessionTypeBytes == 3..7

TheSessionInfo == SessionInfoMessage(111, 2, 1)

\* complete frames: those of the messages, and a SessionInfo payload under
\* each of the other type numbers
Frames ==
    {FrameOf(m) : m \in PipeMessages}
    \cup {Frame(t, EncodeSessionInfo(TheSessionInfo)) : t \in OtherTypes}

\* oep_decode(&B[..k])
OepDecode(B, k) ==
    /\ call = Idle
    /\ call' = [op |-> "oep_decode", frame |-> B, k |-> k]
    /\ ret' = oep_decode(SubSeq(B, 1, k))
    /\ UNCHANGED <<bids, asks, order_id, instrument, published, prev>>
    /\ UNCHANGED <<engine_vars, gateway_vars>>

\* the datagram buffer goes through decode_message
Decoding(buffer) ==
    /\ ret' = decode_message_bytes(buffer)
    /\ UNCHANGED <<bids, asks, order_id, instrument, published, prev>>
    /\ UNCHANGED <<engine_vars, gateway_vars>>

\* the gateway decodes the client's frame of message c, relays it, and the
\* engine decodes the datagram
RelayedAndDecoded(c) ==
    /\ call = Idle
    /\ LET m == oep_decode(FrameOf(c)).msg
       IN  /\ call' = [op |-> "decode_message", buffer |-> relay_message(m),
                       relayed |-> m]
           /\ Decoding(relay_message(m))

\* the engine decodes a SessionInfo datagram with local type byte t
SessionDatagramDecoded(t) ==
    /\ call = Idle
    /\ LET d == Datagram(t, EncodeSessionInfo(TheSessionInfo))
       IN  /\ call' = [op |-> "decode_message", buffer |-> d]
           /\ Decoding(d)

NextCodec ==
    \/ \E B \in Frames : \E k \in 0..Len(B) : OepDecode(B, k)
    \/ \E c \in {m \in PipeMessages : m.kind \in RelayedKinds} :
          RelayedAndDecoded(c)
    \/ \E t \in SessionTypeBytes : SessionDatagramDecoded(t)
    \/ Reported

SpecCodec == InitOwners /\ [][NextCodec]_vars

\* ------------------------------------------------------------------------
\* The gateway: ConnectedSession (send, cork, uncork), ConnectionFactory
\* (the two maps, delete_socket), receive_and_prepare_relay_message and
\* the three branches of the poll loop of main
\* ------------------------------------------------------------------------

\* the gateway_id of the configuration
GatewayId == 1

\* ConnectedSession::new
ConnectedSessionNew ==
    [session_id |-> 0, participant |-> 0, recv_buffer |-> <<>>,
     response_buffer |-> <<>>, is_corked |-> FALSE, cork_buf |-> <<>>]

\* what a method of ConnectedSession leaves: the session, the buffers the
\* socket took (one per write), the Result
Did(session, written, result) ==
    [session |-> session, written |-> written, result |-> result]

\* ConnectedSession::send; socket_ok: the socket takes the write
send(session, buf, socket_ok) ==
    IF ~session.is_corked
    THEN IF socket_ok THEN Did(session, <<buf>>, Ok(Len(buf)))
         ELSE Did(session, <<>>, Err("WriteFailed"))
    ELSE Did([session EXCEPT !.cork_buf = @ \o buf], <<>>, Ok(Len(buf)))

\* ConnectedSession::cork
cork(session) == [session EXCEPT !.is_corked = TRUE]

\* a variant of uncork that writes the corked buffers one by one byte
uncork_bytewise(session, socket_ok) ==
    Did([session EXCEPT !.cork_buf = <<>>, !.is_corked = FALSE],
        [i \in 1..Len(session.cork_buf) |-> <<session.cork_buf[i]>>],
        Ok(Len(session.cork_buf)))

\* ConnectedSession::uncork
uncork(session, socket_ok) ==
    IF Len(session.cork_buf) > 0
    THEN IF socket_ok
         THEN Did([session EXCEPT !.cork_buf = <<>>, !.is_corked = FALSE],
                  <<session.cork_buf>>, Ok(Len(session.cork_buf)))
         ELSE Did(session, <<>>, Err("WriteFailed"))
    ELSE Did([session EXCEPT !.is_corked = FALSE], <<>>, Ok(0))

\* the users of Credentials that are not the user of the tests; the
\* session id of the second is 0
OtherUser == <<98, 111, 98>>

ZeroUser == <<122, 101, 100>>

\* the users of the credential store: user name, password hash,
\* session id, participant
Credentials ==
    {[user |-> TestUser, password |-> Hash(7, 64), session_id |-> 2,
      participant |-> 111],
     [user |-> OtherUser, password |-> Hash(9, 64), session_id |-> 3,
      participant |-> 112],
     [user |-> ZeroUser, password |-> Hash(5, 64), session_id |-> 0,
      participant |-> 113]}

\* the check_login of the MockDB: every Login is the participant 111
check_login_mock(user, password, session_id) == Ok(111)

\* GenericDB::check_login: the participant of the user with that session
\* id and password, or an error
check_login(user, password, session_id) ==
    LET found == {c \in Credentials :
                     /\ c.user = user
                     /\ c.session_id = session_id
                     /\ c.password = password}
    IN  IF found = {} THEN Err("InvalidCredentials")
        ELSE Ok((CHOOSE c \in found : TRUE).participant)

\* `msg.user.to_vec().into_iter().filter(|x| *x != 0)`
UserName(user) == SelectSeq(user, LAMBDA x : x # 0)

\* the Login branch of receive_and_prepare_relay_message on a session with
\* participant 0: session_id is set, then the store is asked, then the
\* acknowledgement (header and Login) is sent corked
login(session, msg, socket_ok) ==
    LET named == [session EXCEPT !.session_id = msg.session_id]
        checked == check_login(UserName(msg.user), msg.password,
                               msg.session_id)
    IN  IF checked.state # "Ok" THEN Did(named, <<>>, checked)
        ELSE LET s0 == cork([named EXCEPT !.participant = checked.msg])
                 s1 == send(s0, EncodeHeader(OEP_VERSION, KindIntoU16("Login"),
                                             LOGIN_SIZE), socket_ok)
                 s2 == send(s1.session, EncodeLogin(msg), socket_ok)
                 s3 == uncork(s2.session, socket_ok)
             IN  IF s3.result.state # "Ok"
                 THEN Did(s3.session, s3.written, s3.result)
                 ELSE Did(s3.session, s3.written,
                          Ok(s3.session.participant))

\* a variant of check_session! that only asks for a logged-in session
InvalidParticipant_unchecked(session, msg) == session.participant = 0

\* check_session!: the message fails the check
InvalidParticipant(session, msg) ==
    msg.participant # session.participant \/ session.participant = 0

\* a variant that has no `else` for a Login on a logged-in session
receive_and_prepare_relay_message_relogin(session, msg, socket_ok) ==
    IF msg.kind = "Login" THEN login(session, msg, socket_ok)
    ELSE IF InvalidParticipant(session, msg)
    THEN Did(session, <<>>, Err("InvalidParticipant"))
    ELSE Did([session EXCEPT !.response_buffer = @ \o relay_message(msg)],
             <<>>, Ok(session.participant))

\* receive_and_prepare_relay_message: Ok(participant) or Err; the message to
\* relay is left in response_buffer
receive_and_prepare_relay_message(session, msg, socket_ok) ==
    IF msg.kind = "Login"
    THEN IF session.participant = 0 THEN login(session, msg, socket_ok)
         ELSE Did(session, <<>>, Err("AlreadyLoggedIn"))
    ELSE IF msg.kind \in {"Cancel", "Modify", "NewOrder"}
    THEN IF InvalidParticipant(session, msg)
         THEN Did(session, <<>>, Err("InvalidParticipant"))
         ELSE Did([session EXCEPT !.response_buffer = @ \o relay_message(msg)],
                  <<>>, Ok(session.participant))
    ELSE Did(session, <<>>, Err("NotAccepted"))

\* a map without one key (HashMap::remove)
Removed(map, key) == [x \in DOMAIN map \ {key} |-> map[x]]

\* a map with a key set (HashMap::insert)
With(map, key, value) ==
    [x \in DOMAIN map \cup {key} |-> IF x = key THEN value ELSE map[x]]

\* the two maps of the ConnectionFactory and what one pass of the poll
\* loop wrote: to a client socket (to "client", with its fd k) or to the
\* order group (to "sender")
Gateway(fds, ids, written) == [fds |-> fds, ids |-> ids, written |-> written]

\* the writes of a client socket, each with its fd
Written(k, buffers) ==
    [i \in 1..Len(buffers) |->
        [to |-> "client", k |-> k, buf |-> buffers[i]]]

\* a variant of delete_socket that leaves session_id_to_client_fd as it is
delete_socket_keeping_id(fds, ids, socket_key) ==
    IF socket_key \in DOMAIN fds
    THEN Gateway(Removed(fds, socket_key), ids, <<>>)
    ELSE Gateway(fds, ids, <<>>)

\* ConnectionFactory::delete_socket
delete_socket(fds, ids, socket_key) ==
    IF socket_key \in DOMAIN fds
    THEN Gateway(Removed(fds, socket_key),
                 Removed(ids, fds[socket_key].session_id), <<>>)
    ELSE Gateway(fds, ids, <<>>)

\* ConnectionFactory::update_session_id
update_session_id(ids, session_id, client_fd) ==
    With(ids, session_id, client_fd)

\* ConnectionFactory::get_mut_session_by_session_id: the fd of the session,
\* or 0 for None
get_session_by_session_id(fds, ids, session_id) ==
    IF session_id \in DOMAIN ids /\ ids[session_id] \in DOMAIN fds
    THEN ids[session_id] ELSE 0

\* the `Ok(msg)` arm of the client branch of main, after the drain: the
\* three checks of the message against the connection, then
\* receive_and_prepare_relay_message and what follows its result
message_received(fds, ids, k, msg, socket_ok) ==
    LET participant == fds[k].participant
        session == fds[k].session_id
    IN  IF msg.gateway_id # GatewayId THEN delete_socket(fds, ids, k)
        ELSE IF session # 0 /\ msg.session_id # session
        THEN delete_socket(fds, ids, k)
        ELSE IF (participant = 0 \/ session = 0) /\ msg.kind # "Login"
        THEN delete_socket(fds, ids, k)
        ELSE
          LET r == receive_and_prepare_relay_message(fds[k], msg, socket_ok)
              after == [fds EXCEPT ![k] = r.session]
          IN  IF r.result.state # "Ok"
              THEN [delete_socket(after, ids, k)
                      EXCEPT !.written = Written(k, r.written)]
              ELSE IF participant = 0 /\ r.result.msg # 0
              THEN Gateway(after,
                           update_session_id(ids, msg.session_id, k),
                           Written(k, r.written))
              ELSE IF participant # 0
              THEN IF Len(r.session.response_buffer) > 0
                   THEN Gateway(
                          [after EXCEPT ![k].response_buffer = <<>>], ids,
                          Written(k, r.written)
                          \o <<[to |-> "sender", k |-> 0,
                                buf |-> r.session.response_buffer]>>)
                   ELSE Gateway(after, ids, Written(k, r.written))
              ELSE [delete_socket(after, ids, k)
                      EXCEPT !.written = Written(k, r.written)]

\* the client branch of main for the readable socket k: read is what recv
\* gave, Ok(bytes) or an error
client_readable(fds, ids, k, read, socket_ok) ==
    IF read.state # "Ok" THEN delete_socket(fds, ids, k)
    ELSE
      LET buffer == fds[k].recv_buffer \o read.msg
          kept == [fds EXCEPT ![k].recv_buffer = buffer]
          m == oep_decode(buffer)
      IN  IF m.state = "Ok"
          THEN LET n == message_len(m.msg.kind) + OEP_HEADER_SIZE
                   drained == [fds EXCEPT ![k].recv_buffer =
                                  SubSeq(buffer, n + 1, Len(buffer))]
               IN  message_received(drained, ids, k, m.msg, socket_ok)
          ELSE IF m.state = "UnexpectedEof"
          THEN IF Len(read.msg) = 0 THEN delete_socket(kept, ids, k)
               ELSE Gateway(kept, ids, <<>>)
          ELSE delete_socket(kept, ids, k)

\* the internal publisher branch of main: a datagram of the matching engine
publisher_readable(fds, ids, buf, socket_ok) ==
    IF Len(buf) < OEP_HEADER_SIZE THEN Gateway(fds, ids, <<>>)
    ELSE
      LET header == DecodeHeader(SubSeq(buf, 1, OEP_HEADER_SIZE))
      IN  IF \/ message_type(header.msg_type) # "ExecutionReport"
             \/ Len(buf) # OEP_HEADER_SIZE + EXECUTIONREPORT_SIZE
          THEN Gateway(fds, ids, <<>>)
          ELSE
            LET ereport == DecodeExecutionReport(
                               SubSeq(buf, OEP_HEADER_SIZE + 1, Len(buf)))
                k == get_session_by_session_id(fds, ids, ereport.session_id)
            IN  IF ereport.gateway_id # GatewayId \/ k = 0
                THEN Gateway(fds, ids, <<>>)
                ELSE LET s == send(fds[k], buf, socket_ok)
                     IN  Gateway([fds EXCEPT ![k] = s.session], ids,
                                 Written(k, s.written))

\* ------------------------------------------------------------------------
\* The gateway under clients that send whole frames, one per read
\* ------------------------------------------------------------------------

\* the sockets `accept` hands out
ClientFds == {1, 2}

\* the Logins clients send: the three users with their passwords, a wrong
\* password under the session id of the first, a Login for another gateway
GatewayLogins ==
    {LoginMessage(111, 2, GatewayId, TestUser, Hash(7, 64)),
     LoginMessage(112, 3, GatewayId, OtherUser, Hash(9, 64)),
     LoginMessage(113, 0, GatewayId, ZeroUser, Hash(5, 64)),
     LoginMessage(111, 2, GatewayId, TestUser, Hash(8, 64)),
     LoginMessage(111, 2, 2, TestUser, Hash(7, 64))}

\* the other frames clients send: orders of the first user, the same order
\* under another participant, another session id and another gateway id,
\* a cancel of the second user, and an execution report
GatewayOrders ==
    {NewOrderMessage(111, 2, GatewayId, InstrumentId, "Bid"),
     ModifyMessage(111, 2, GatewayId, InstrumentId, "Bid", 1),
     CancelMessage(111, 2, GatewayId, InstrumentId, "Bid", 1),
     CancelMessage(112, 3, GatewayId, InstrumentId, "Ask", 2),
     NewOrderMessage(112, 2, GatewayId, InstrumentId, "Bid"),
     NewOrderMessage(111, 3, GatewayId, InstrumentId, "Bid"),
     NewOrderMessage(111, 2, 2, InstrumentId, "Bid"),
     [kind |-> "ExecutionReport"] @@
         ExecutionReport(NewOrderMessage(111, 2, GatewayId, InstrumentId,
                                         "Bid"), 1, 100, 100, 197, "Inserted")}

GatewayMessages == GatewayLogins \cup GatewayOrders

\* the execution reports of the matching engine: for this gateway and for
\* another, for the sessions of the two users
GatewayReports ==
    {[kind |-> "ExecutionReport"] @@
        ExecutionReport(NewOrderMessage(111, s, g, InstrumentId, "Bid"),
                        1, 100, 100, 197, "Inserted") :
        s \in {2, 3}, g \in {GatewayId, 2}}

\* one pass of the poll loop took the gateway from its maps to g; e is the
\* event it handled
Polled(e, g) ==
    /\ call' = e
    /\ prev' = Gateway(client_fd_to_session, session_id_to_client_fd, <<>>)
    /\ client_fd_to_session' = g.fds
    /\ session_id_to_client_fd' = g.ids
    /\ writes' = g.written
    /\ UNCHANGED <<bids, asks, order_id, instrument, ret, published>>
    /\ UNCHANGED <<engine_vars, unread, handled>>

\* the listener is readable: ConnectionFactory::accept
Accept(k) ==
    /\ k \notin DOMAIN client_fd_to_session
    /\ Polled([op |-> "accept", k |-> k],
              Gateway(With(client_fd_to_session, k, ConnectedSessionNew),
                      session_id_to_client_fd, <<>>))

\* the client socket k is readable and holds the frame of m
ClientReadable(k, m, socket_ok) ==
    /\ k \in DOMAIN client_fd_to_session
    /\ Polled([op |-> "client", k |-> k, msg |-> m,
               socket_ok |-> socket_ok],
              client_readable(client_fd_to_session, session_id_to_client_fd,
                              k, Ok(FrameOf(m)), socket_ok))

\* the client of socket k has gone: recv fails, or reads no byte
ClientGone(k, read) ==
    /\ k \in DOMAIN client_fd_to_session
    /\ Polled([op |-> "gone", k |-> k],
              client_readable(client_fd_to_session, session_id_to_client_fd,
                              k, read, TRUE))

\* the internal publisher socket is readable and holds the report e
PublisherReadable(e, socket_ok) ==
    /\ Polled([op |-> "publisher", report |-> e, socket_ok |-> socket_ok],
              publisher_readable(client_fd_to_session,
                                 session_id_to_client_fd, FrameOf(e),
                                 socket_ok))

NextGateway ==
    \/ \E k \in ClientFds : Accept(k)
    \/ \E k \in ClientFds, m \in GatewayMessages, socket_ok \in BOOLEAN :
          ClientReadable(k, m, socket_ok)
    \/ \E k \in ClientFds :
          \E read \in {Err("ConnectionReset"), Ok(<<>>)} : ClientGone(k, read)
    \/ \E e \in GatewayReports, socket_ok \in BOOLEAN :
          PublisherReadable(e, socket_ok)

SpecGateway == InitOwners /\ [][NextGateway]_vars

\* ------------------------------------------------------------------------
\* A ConnectedSession driven through send, cork and uncork, beside a
\* connection that logs in: socket 1 is read by the poll loop, socket 2 is
\* the session the three methods are called on
\* ------------------------------------------------------------------------

\* the bytes cork_buf may hold
MaxCorked == 4

\* the buffers passed to send
CorkBuffers == {<<1>>, <<2, 3>>}

\* the frames read on socket 1
CorkFrames ==
    {LoginMessage(111, 2, GatewayId, TestUser, Hash(7, 64)),
     LoginMessage(111, 2, GatewayId, TestUser, Hash(8, 64)),
     NewOrderMessage(111, 2, GatewayId, InstrumentId, "Bid")}

\* the socket of the session the methods are called on
CorkFd == 2

\* a method was called on the session of CorkFd and left d; since: the
\* bytes passed to send since the session was corked
Called(e, d, since) ==
    /\ call' = e
    /\ prev' = Gateway(client_fd_to_session, session_id_to_client_fd, <<>>)
    /\ client_fd_to_session' =
          [client_fd_to_session EXCEPT ![CorkFd] = d.session]
    /\ writes' = Written(CorkFd, d.written)
    /\ ret' = d.result
    /\ handled' = since
    /\ UNCHANGED <<bids, asks, order_id, instrument, published>>
    /\ UNCHANGED <<engine_vars, session_id_to_client_fd, unread>>

\* session.cork()
CorkSession ==
    /\ CorkFd \in DOMAIN client_fd_to_session
    /\ Called([op |-> "cork"],
              Did(cork(client_fd_to_session[CorkFd]), <<>>, NoResult),
              IF client_fd_to_session[CorkFd].is_corked THEN handled
              ELSE <<>>)

\* session.send(buf)
SendBytes(buf, socket_ok) ==
    /\ CorkFd \in DOMAIN client_fd_to_session
    /\ Len(client_fd_to_session[CorkFd].cork_buf) + Len(buf) <= MaxCorked
    /\ Called([op |-> "send", buf |-> buf, socket_ok |-> socket_ok],
              send(client_fd_to_session[CorkFd], buf, socket_ok),
              IF client_fd_to_session[CorkFd].is_corked THEN handled \o buf
              ELSE handled)

\* session.uncork()
UncorkSession(socket_ok) ==
    /\ CorkFd \in DOMAIN client_fd_to_session
    /\ Called([op |-> "uncork", socket_ok |-> socket_ok],
              uncork(client_fd_to_session[CorkFd], socket_ok), handled)

NextCork ==
    \/ \E k \in ClientFds : Accept(k)
    \/ \E m \in CorkFrames, socket_ok \in BOOLEAN :
          ClientReadable(1, m, socket_ok)
    \/ CorkSession
    \/ \E buf \in CorkBuffers, socket_ok \in BOOLEAN :
          SendBytes(buf, socket_ok)
    \/ \E socket_ok \in BOOLEAN : UncorkSession(socket_ok)

SpecCork == InitOwners /\ [][NextCork]_vars

\* ------------------------------------------------------------------------
\* One client whose frames reach the gateway in reads of any size
\* ------------------------------------------------------------------------

\* what the client sends on its connection: a Login, an order, its cancel
StreamMessages ==
    <<LoginMessage(111, 2, GatewayId, TestUser, Hash(7, 64)),
      NewOrderMessage(111, 2, GatewayId, InstrumentId, "Bid"),
      CancelMessage(111, 2, GatewayId, InstrumentId, "Bid", 1)>>

\* the frames of the messages, one after the other
RECURSIVE FramesOf(_)
FramesOf(msgs) ==
    IF msgs = <<>> THEN <<>> ELSE FrameOf(Head(msgs)) \o FramesOf(Tail(msgs))

\* the socket of the client
StreamFd == 1

\* the offsets of the stream at which the i-th frame starts and ends
FrameStart(i) == Len(FramesOf(SubSeq(StreamMessages, 1, i - 1)))

FrameEnd(i) == Len(FramesOf(SubSeq(StreamMessages, 1, i)))

\* where a read may end: in each frame after its first byte, in the middle
\* and at the end of its header, one byte into its payload and in the
\* middle of it, one byte before its end and at its end
StreamCuts ==
    UNION {{FrameStart(i) + 1, FrameStart(i) + 4,
            FrameStart(i) + OEP_HEADER_SIZE,
            FrameStart(i) + OEP_HEADER_SIZE + 1,
            FrameStart(i) + 2 * OEP_HEADER_SIZE,
            FrameEnd(i) - 1, FrameEnd(i)} : i \in 1..Len(StreamMessages)}

\* how much of the stream has been read
StreamOffset == Len(FramesOf(StreamMessages)) - Len(unread)

\* the client of the accepted connection writes its frames
ClientSends ==
    /\ call.op = "accept"
    /\ call' = [op |-> "sent", k |-> StreamFd]
    /\ unread' = FramesOf(StreamMessages)
    /\ handled' = <<>>
    /\ writes' = <<>>
    /\ prev' = Gateway(client_fd_to_session, session_id_to_client_fd, <<>>)
    /\ UNCHANGED <<bids, asks, order_id, instrument, ret, published>>
    /\ UNCHANGED <<engine_vars, client_fd_to_session,
                   session_id_to_client_fd>>

\* the client socket is readable and recv gives the next n bytes; the
\* client branch of main runs once on them
StreamRead(n) ==
    /\ StreamFd \in DOMAIN client_fd_to_session
    /\ call.op \in {"sent", "read"}
    /\ n \in 1..Len(unread)
    /\ StreamOffset + n \in StreamCuts
    /\ LET m == oep_decode(client_fd_to_session[StreamFd].recv_buffer
                           \o SubSeq(unread, 1, n))
           g == client_readable(client_fd_to_session,
                                session_id_to_client_fd, StreamFd,
                                Ok(SubSeq(unread, 1, n)), TRUE)
       IN  /\ call' = [op |-> "read", k |-> StreamFd, n |-> n]
           /\ prev' = Gateway(client_fd_to_session, session_id_to_client_fd,
                              <<>>)
           /\ client_fd_to_session' = g.fds
           /\ session_id_to_client_fd' = g.ids
           /\ writes' = g.written
           /\ unread' = SubSeq(unread, n + 1, Len(unread))
           /\ handled' = IF m.state = "Ok" THEN Append(handled, m.msg)
                         ELSE handled
           /\ ret' = [state |-> m.state]
    /\ UNCHANGED <<bids, asks, order_id, instrument, published>>
    /\ UNCHANGED engine_vars

NextStream ==
    \/ Accept(StreamFd)
    \/ ClientSends
    \/ \E n \in 1..Len(FramesOf(StreamMessages)) : StreamRead(n)

SpecStream == InitOwners /\ [][NextStream]_vars

\* ------------------------------------------------------------------------
\* Clearing protocol (clearing_connection: ClearProtocol on the client
\* side, ClearClearingConnection; instruments: InstrumentList)
\* ------------------------------------------------------------------------
CLEAR_PROTOCOL_VERSION == 1

CLEAR_TYPE_HEARTBEAT == 0

CLEAR_TYPE_INSTRUMENT_UPDATE == 1

CLEAR_TYPE_INSTRUMENT_REQUEST == 2

CLEAR_TYPE_ALL_INSTRUMENTS_REQUEST == 3

\* b'C' and b'P'
MagicC == 67

MagicP == 80

\* `processed_bytes = 4; // technical header len`
TechnicalHeaderLen == 4

\* the id, type, state, bands and variation of an encoded instrument
InstrumentFixedLen == 12

\* impl From<u8> for InstrumentState, and the match of the clearing protocol
InstrumentStateFromU8(v) ==
    IF v = 0 THEN "Trading" ELSE IF v = 2 THEN "Auction" ELSE "Closed"

\* impl Into<u8> for InstrumentState
InstrumentStateIntoU8(s) ==
    IF s = "Trading" THEN 0 ELSE IF s = "Closed" THEN 1 ELSE 2

\* the match on buffer[12] of the clearing protocol
InstrumentTypeFromU8(v) ==
    IF v = 1 THEN "OptionCall" ELSE IF v = 2 THEN "OptionPut"
    ELSE IF v = 3 THEN "Future" ELSE IF v = 4 THEN "Warrant" ELSE "Share"

\* impl Into<u8> for InstrumentType
InstrumentTypeIntoU8(t) ==
    IF t = "OptionCall" THEN 1 ELSE IF t = "OptionPut" THEN 2
    ELSE IF t = "Future" THEN 3 ELSE IF t = "Warrant" THEN 4 ELSE 0

\* Instrument::new: no field is checked
InstrumentNew(id, name, i_type, state, percentage_bands, percentage_variation_allowed) ==
    [id |-> id, name |-> name, i_type |-> i_type, state |-> state,
     percentage_bands |-> percentage_bands,
     percentage_variation_allowed |-> percentage_variation_allowed]

\* Instrument::encode
InstrumentEncode(i) ==
    LE(i.id, 8)
    \o <<InstrumentTypeIntoU8(i.i_type), InstrumentStateIntoU8(i.state),
         i.percentage_bands, i.percentage_variation_allowed>>
    \o i.name

\* String::from_utf8 on the name bytes: bytes below 128 are one-byte code
\* points; the byte 255 the inputs use occurs in no UTF-8 text
Utf8(v) == \A x \in 1..Len(v) : v[x] < 128

\* the catalog, the instruments behind its Rcs, and the books: what
\* ClearProtocol reads and writes; with the history of add_instrument
Clearing(list, heap, books, log) ==
    [instrument_list |-> list, cells |-> heap, markets |-> books,
     applied |-> log]

\* variant: the entry of a known id is replaced by a new Rc
add_instrument_replacing(c, i) ==
    [c |-> Clearing(With(c.instrument_list, i.id, Len(c.cells) + 1),
                    Append(c.cells, i), c.markets, Append(c.applied, i)),
     rc |-> Len(c.cells) + 1]

\* InstrumentList::add_instrument: a new Rc for an unknown id, clone_from
\* into the existing RefCell for a known one; returns the Rc of the list
add_instrument(c, i) ==
    IF i.id \in DOMAIN c.instrument_list
    THEN LET existing == c.instrument_list[i.id]
         IN  [c |-> Clearing(c.instrument_list,
                             [c.cells EXCEPT ![existing] = i], c.markets,
                             Append(c.applied, i)),
              rc |-> existing]
    ELSE [c |-> Clearing(With(c.instrument_list, i.id, Len(c.cells) + 1),
                         Append(c.cells, i), c.markets, Append(c.applied, i)),
          rc |-> Len(c.cells) + 1]

\* Market::new(instrument, disseminator): the book holds the Rc
BookNew(rc) == [bids |-> <<>>, asks |-> <<>>, order_id |-> 0, instrument |-> rc]

\* ClearProtocol::prepare_instrument_update_response
prepare_instrument_update_response(i) ==
    <<MagicC, MagicP, CLEAR_PROTOCOL_VERSION, 1, 1, 0>>
    \o LE(InstrumentFixedLen + Len(i.name), 2) \o InstrumentEncode(i)

\* the responses for the instruments of the ids, one after the other
RECURSIVE Responses(_, _)
Responses(c, ids) ==
    IF ids = {} THEN <<>>
    ELSE LET id == CHOOSE x \in ids : \A y \in ids : x <= y
         IN  prepare_instrument_update_response(c.cells[c.instrument_list[id]])
             \o Responses(c, ids \ {id})

\* what process_one_data_entry and process return: Ok((response, bytes)),
\* Err(ProcessError) or a panic, with the catalog and books they leave
Processing(state, response, bytes, c) ==
    [state |-> state, response |-> response, bytes |-> bytes, c |-> c]

\* the InstrumentUpdate arm of process_one_data_entry on the client side.
\* `buffer[4..12]`, `buffer[12]` .. `buffer[15]` and `buffer[16..]` panic on
\* a buffer of fewer than 16 bytes; `data_len as usize - 12` panics in a
\* build with overflow checks and wraps in one without, where truncate
\* then keeps all of buffer[16..]; from_utf8(..).unwrap() panics on bytes
\* that are no UTF-8
instrument_update(c, buffer, data_len, overflow_checks) ==
    IF Len(buffer) < 16 THEN Processing("Panicked", <<>>, 0, c)
    ELSE IF data_len < InstrumentFixedLen /\ overflow_checks
    THEN Processing("Panicked", <<>>, 0, c)
    ELSE LET instrument_id == Field(buffer, 4, 8)
             v == IF data_len < InstrumentFixedLen
                  THEN SubSeq(buffer, 17, Len(buffer))
                  ELSE Slice(buffer, 16, data_len - InstrumentFixedLen)
             i == InstrumentNew(instrument_id, v,
                                InstrumentTypeFromU8(buffer[13]),
                                InstrumentStateFromU8(buffer[14]),
                                buffer[15], buffer[16])
             a == add_instrument(c, i)
         IN  IF ~Utf8(v) THEN Processing("Panicked", <<>>, 0, c)
             ELSE IF instrument_id \in DOMAIN c.markets
             THEN Processing("Ok", <<>>, 4 + data_len, a.c)
             ELSE Processing("Ok", <<>>, 4 + data_len,
                             Clearing(a.c.instrument_list, a.c.cells,
                                      With(c.markets, instrument_id,
                                           BookNew(a.rc)),
                                      a.c.applied))

\* ClearProtocol::process_one_data_entry
process_one_data_entry(c, buffer, overflow_checks) ==
    LET data_type == Field(buffer, 0, 2)
        data_len == Field(buffer, 2, 2)
        processed == 4
    IN  IF data_len + processed > Len(buffer)
        THEN Processing("Ok", <<>>, 0, c)
        ELSE IF data_type = CLEAR_TYPE_HEARTBEAT
        THEN Processing("Ok", <<>>, processed, c)
        ELSE IF data_type = CLEAR_TYPE_INSTRUMENT_UPDATE
        THEN instrument_update(c, buffer, data_len, overflow_checks)
        ELSE IF data_type = CLEAR_TYPE_INSTRUMENT_REQUEST
        THEN IF processed + 8 > Len(buffer)
             THEN Processing("Ok", <<>>, 0, c)
             ELSE LET instrument_id == Field(buffer, 4, 8)
                  IN  IF instrument_id \in DOMAIN c.instrument_list
                      THEN Processing("Ok",
                               prepare_instrument_update_response(
                                   c.cells[c.instrument_list[instrument_id]]),
                               processed + 8, c)
                      ELSE Processing("Ok", <<>>, processed + 8, c)
        ELSE IF data_type = CLEAR_TYPE_ALL_INSTRUMENTS_REQUEST
        THEN Processing("Ok", Responses(c, DOMAIN c.instrument_list),
                        processed, c)
        ELSE Processing("Invalid type", <<>>, 0, c)

\* the while loop of ClearProtocol::process: one entry per turn, until
\* fewer than 4 bytes or no entry is left, an entry is incomplete, or an
\* entry fails (the `?`)
RECURSIVE ProcessEntries(_, _, _, _, _, _)
ProcessEntries(c, buffer, entries, processed_bytes, response, overflow_checks) ==
    IF Len(buffer) - processed_bytes >= 4 /\ entries > 0
    THEN LET one == process_one_data_entry(
                        c, SubSeq(buffer, processed_bytes + 1, Len(buffer)),
                        overflow_checks)
         IN  IF one.state # "Ok" THEN Processing(one.state, <<>>, 0, one.c)
             ELSE IF one.bytes = 0
             THEN Processing("Ok", response, processed_bytes, one.c)
             ELSE ProcessEntries(one.c, buffer, entries - 1,
                                 processed_bytes + one.bytes,
                                 response \o one.response, overflow_checks)
    ELSE Processing("Ok", response, processed_bytes, c)

\* ClearProtocol::process
process(c, buffer, overflow_checks) ==
    IF Len(buffer) < 8 THEN Processing("Ok", <<>>, 0, c)
    ELSE IF buffer[1] # MagicC \/ buffer[2] # MagicP
    THEN Processing("Invalid header", <<>>, 0, c)
    ELSE IF buffer[3] # CLEAR_PROTOCOL_VERSION
    THEN Processing("Invalid protocol version", <<>>, 0, c)
    ELSE ProcessEntries(c, buffer, buffer[4], TechnicalHeaderLen, <<>>,
                        overflow_checks)

\* what ClearClearingConnection::process returns: Ok(total_bytes), the
\* Err of the protocol or of the send, or the panic of the protocol; with
\* the responses it sent and, for every turn of its loop, the total before
\* the turn and what the protocol returned
Connection(state, bytes, c, sent, turns) ==
    [state |-> state, bytes |-> bytes, c |-> c, sent |-> sent,
     turns |-> turns]

\* the loop of ClearClearingConnection::process
RECURSIVE ConnectionLoop(_, _, _, _, _, _, _)
ConnectionLoop(c, buffer, total_bytes, sent, turns, socket_ok, overflow_checks) ==
    LET r == process(c, SubSeq(buffer, total_bytes + 1, Len(buffer)),
                     overflow_checks)
        all == Append(turns, [total_bytes |-> total_bytes,
                              state |-> r.state, bytes |-> r.bytes])
    IN  IF r.state # "Ok" THEN Connection(r.state, 0, r.c, sent, all)
        ELSE IF r.response # <<>> /\ ~socket_ok
        THEN Connection("Error sending response", 0, r.c, sent, all)
        ELSE LET out == IF r.response # <<>> THEN Append(sent, r.response)
                        ELSE sent
             IN  IF r.bytes = 0
                 THEN Connection("Ok", total_bytes, r.c, out, all)
                 ELSE ConnectionLoop(r.c, buffer, total_bytes + r.bytes, out,
                                     all, socket_ok, overflow_checks)

\* ClearClearingConnection::process
connection_process(c, buffer, socket_ok, overflow_checks) ==
    ConnectionLoop(c, buffer, 0, <<>>, <<>>, socket_ok, overflow_checks)

\* a data entry: {type: u16, len: u16, payload: [len]}
Entry(data_type, payload) ==
    LE(data_type, 2) \o LE(Len(payload), 2) \o payload

\* the byte sequences of the list, one after the other
RECURSIVE Flat(_)
Flat(list) == IF list = <<>> THEN <<>> ELSE Head(list) \o Flat(Tail(list))

\* a frame: 'C', 'P', version, entry count, entries
ClearFrame(version, entries) ==
    <<MagicC, MagicP, version, Len(entries)>> \o Flat(entries)

\* the instrument of the book, as the clearing server describes it
Listed(id, state, percentage_bands, name) ==
    InstrumentNew(id, name, "Share", state, percentage_bands, 25)

\* an InstrumentUpdate entry
Update(i) == Entry(CLEAR_TYPE_INSTRUMENT_UPDATE, InstrumentEncode(i))

Heartbeat == Entry(CLEAR_TYPE_HEARTBEAT, <<>>)

\* the second instrument of the clearing server
SecondId == InstrumentId + 1

\* the catalog, the books and the history of the engine
ClearingNow == Clearing(instrument_list, cells, markets, applied)

ClearingBefore ==
    Clearing(prev.instrument_list, prev.cells, prev.markets, prev.applied)

\* the engine has not panicked
Running == ret.state # "Panicked"

\* ------------------------------------------------------------------------
\* Specification of the clearing protocol alone: process and the
\* connection's process are called on whole frames, on frames cut short
\* and on malformed frames
\* ------------------------------------------------------------------------

\* the most instruments passed to add_instrument
MaxApplied == 2

\* frames of entries that have the length of their type
WellFormedFrames ==
    {ClearFrame(1, <<Update(Listed(InstrumentId, "Trading", 10, <<65>>))>>),
     ClearFrame(1, <<Update(Listed(InstrumentId, "Closed", 20, <<>>)),
                Update(Listed(SecondId, "Auction", 10, <<65, 66>>))>>),
     ClearFrame(1, <<Heartbeat, Update(Listed(SecondId, "Trading", 10, <<>>))>>),
     ClearFrame(1, <<Heartbeat>>),
     ClearFrame(1, <<Entry(CLEAR_TYPE_INSTRUMENT_REQUEST, LE(InstrumentId, 8)),
                Heartbeat>>),
     ClearFrame(1, <<Entry(CLEAR_TYPE_ALL_INSTRUMENTS_REQUEST, <<>>)>>),
     ClearFrame(1, <<Heartbeat>>)
     \o ClearFrame(1, <<Update(Listed(InstrumentId, "Trading", 10, <<>>))>>)}

\* frames with a wrong magic, a wrong version, an entry of an unknown type
RejectedFrames ==
    {<<MagicC, MagicC, 1, 1>> \o Heartbeat,
     ClearFrame(2, <<Heartbeat>>),
     ClearFrame(1, <<Heartbeat, Entry(9, <<>>)>>)}

\* frames with an entry whose length is not that of its type, or whose
\* name is no UTF-8
MalformedFrames ==
    {ClearFrame(1, <<Entry(CLEAR_TYPE_HEARTBEAT, <<9, 9>>)>>),
     ClearFrame(1, <<Entry(CLEAR_TYPE_INSTRUMENT_REQUEST, <<>>), Heartbeat,
                Heartbeat>>),
     ClearFrame(1, <<Entry(CLEAR_TYPE_INSTRUMENT_UPDATE, <<>>)>>),
     ClearFrame(1, <<Entry(CLEAR_TYPE_INSTRUMENT_UPDATE, LE(SecondId, 4)),
                Heartbeat, Heartbeat>>),
     ClearFrame(1, <<Update(Listed(SecondId, "Trading", 10, <<255>>))>>)}

\* every buffer a read can leave: the frames and each of their prefixes
ProtocolBuffers ==
    UNION {{SubSeq(f, 1, n) : n \in 0..Len(f)} :
              f \in WellFormedFrames \cup RejectedFrames
                    \cup MalformedFrames}

\* a test calls ClearProtocol::process on the buffer
ProtocolProcess(buffer, overflow_checks) ==
    LET r == process(ClearingNow, buffer, overflow_checks)
    IN  /\ call = Idle
        /\ Len(applied) < MaxApplied
        /\ call' = [op |-> "process", buffer |-> buffer]
        /\ prev' = ClearingNow
        /\ ret' = r
        /\ instrument_list' = r.c.instrument_list
        /\ cells' = r.c.cells
        /\ markets' = r.c.markets
        /\ applied' = r.c.applied
        /\ UNCHANGED <<bids, asks, order_id, instrument, published, sessions,
                       order_socket, ereports, gateway_vars, clearing_buffer,
                       seq, feed_socket, clearing_socket, received>>

\* a test calls ClearClearingConnection::process on the buffer
ConnectionProcess(buffer, socket_ok, overflow_checks) ==
    LET r == connection_process(ClearingNow, buffer, socket_ok,
                                overflow_checks)
    IN  /\ call = Idle
        /\ Len(applied) < MaxApplied
        /\ call' = [op |-> "connection_process", buffer |-> buffer]
        /\ prev' = ClearingNow
        /\ ret' = r
        /\ instrument_list' = r.c.instrument_list
        /\ cells' = r.c.cells
        /\ markets' = r.c.markets
        /\ applied' = r.c.applied
        /\ UNCHANGED <<bids, asks, order_id, instrument, published, sessions,
                       order_socket, ereports, gateway_vars, clearing_buffer,
                       seq, feed_socket, clearing_socket, received>>

NextProtocol ==
    \/ \E b \in ProtocolBuffers, oc \in BOOLEAN : ProtocolProcess(b, oc)
    \/ \E b \in ProtocolBuffers, ok \in BOOLEAN, oc \in BOOLEAN :
          ConnectionProcess(b, ok, oc)
    \/ Return

SpecProtocol == InitOwners /\ [][NextProtocol]_vars

\* ------------------------------------------------------------------------
\* Vocabulary of the properties
\* ------------------------------------------------------------------------
NonResting == {"Market", "FillAndKill", "FillOrKill"}

IsAdd == call.op = "add_order"

IsTrade(e) == e.kind = "Trade"

IsNewOrder(e) == e.kind = "NewOrder"

\* the Trade events of the last call, in the order they were published
Trades == SelectSeq(published, IsTrade)

RECURSIVE SumQty(_)
SumQty(list) == IF list = <<>> THEN 0 ELSE Head(list).quantity + SumQty(Tail(list))

\* the sides of the book seen from the order of the last call
OwnBefore == IF call.order.side = "Bid" THEN prev.bids ELSE prev.asks

OppBefore == IF call.order.side = "Bid" THEN prev.asks ELSE prev.bids

OwnAfter == IF call.order.side = "Bid" THEN bids ELSE asks

OppAfter == IF call.order.side = "Bid" THEN asks ELSE bids

\* the price bands as the specification words them, on the book before the call
BandMid == (prev.bids[1].price + prev.asks[1].price) \div 2

BandLow == (BandMid * (100 - prev.instrument.percentage_bands)) \div 100

BandHigh == (BandMid * (100 + prev.instrument.percentage_bands)) \div 100

BothSidesBefore == prev.bids # <<>> /\ prev.asks # <<>>

OutsideBands ==
    /\ call.order.order_type # "Market"
    /\ BothSidesBefore
    /\ (call.order.price < BandLow \/ call.order.price > BandHigh)

\* the last call is an add_order that passed every check before matching
Accepted ==
    /\ IsAdd
    /\ prev.instrument.state # "Closed"
    /\ call.order.quantity > 0
    /\ (call.order.price > 0 \/ call.order.order_type = "Market")
    /\ ~OutsideBands

\* a resting order at a price the incoming order accepts
Acceptable(p) ==
    \/ call.order.order_type = "Market"
    \/ call.order.side = "Bid" /\ p.price <= call.order.price
    \/ call.order.side = "Ask" /\ p.price >= call.order.price

\* the resting quantity the incoming order can trade against
MatchedDepth == SumQty(SelectSeq(OppBefore, Acceptable))

Filled == Min(call.order.quantity, MatchedDepth)

Remainder == call.order.quantity - Filled

\* ------------------------------------------------------------------------
\* Properties
\* ------------------------------------------------------------------------

\* C1: in every reachable state, when both sides are non-empty every
\* resident bid is priced strictly below every resident ask.
C1_NoCrossedBook ==
    \A i \in 1..Len(bids), j \in 1..Len(asks) : bids[i].price < asks[j].price

\* C1 witness: an add has traded against the top ask and posted its
\* remainder, and both sides are populated.
C1_Witness ==
    /\ IsAdd
    /\ ret.state = "PartiallyTraded"
    /\ bids # <<>>
    /\ asks # <<>>

\* C2: bids are ordered by non-increasing price, asks by non-decreasing
\* price, and among orders of one side at one price the smaller exchange
\* order id comes first.
C2_PriceTimePriority ==
    /\ \A i, j \in 1..Len(bids) :
          i < j => /\ bids[i].price >= bids[j].price
                   /\ bids[i].price = bids[j].price => bids[i].id < bids[j].id
    /\ \A i, j \in 1..Len(asks) :
          i < j => /\ asks[i].price <= asks[j].price
                   /\ asks[i].price = asks[j].price => asks[i].id < asks[j].id

\* C2 witness: a price-changing modify has re-added an order behind another
\* order at the same price.
C2_Witness ==
    /\ call.op = "modify_order"
    /\ ret.state = "Inserted"
    /\ \E i \in 2..Len(OwnAfter) :
          /\ OwnAfter[i].id = order_id
          /\ OwnAfter[i - 1].price = OwnAfter[i].price

\* C3: the i-th Trade of a call is against the i-th order the opposite side
\* held before the call (the head at the moment of that fill), at that
\* order's price, with a positive quantity and two different ids: the
\* aggressor's id in the slot of its own side, the resting id in the other.
C3_TradesWellFormed ==
    IF call.op \in {"add_order", "modify_order"}
    THEN \A i \in 1..Len(Trades) :
            /\ i <= Len(OppBefore)
            /\ Trades[i].bid_order_id # Trades[i].ask_order_id
            /\ Trades[i].quantity > 0
            /\ Trades[i].price = OppBefore[i].price
            /\ IF call.order.side = "Bid"
               THEN /\ Trades[i].bid_order_id = order_id
                    /\ Trades[i].ask_order_id = OppBefore[i].id
               ELSE /\ Trades[i].ask_order_id = order_id
                    /\ Trades[i].bid_order_id = OppBefore[i].id
    ELSE Trades = <<>>

\* C3 witness: one add has traded twice, at two resting prices that both
\* differ from its own price.
C3_Witness ==
    /\ IsAdd
    /\ Len(Trades) = 2
    /\ Trades[1].price # Trades[2].price
    /\ Trades[1].price # call.order.price
    /\ Trades[2].price # call.order.price

C5_CounterRaisedByEveryAdd ==
    IsAdd => order_id = prev.order_id + 1

\* C6: every resident order has a positive quantity and a positive price,
\* lies on the side it names, and has the side and type it was accepted
\* with: it was resident with them before the call, or it is the order the
\* call added.
C6_ResidentOrdersValid ==
    \A k \in 1..(Len(bids) + Len(asks)) :
        LET x == (bids \o asks)[k]
            before == prev.bids \o prev.asks
        IN  /\ x.quantity > 0
            /\ x.price > 0
            /\ x.side = (IF k <= Len(bids) THEN "Bid" ELSE "Ask")
            /\ \/ \E i \in 1..Len(before) :
                     /\ before[i].id = x.id
                     /\ before[i].side = x.side
                     /\ before[i].order_type = x.order_type
               \/ /\ call.op \in {"add_order", "modify_order"}
                  /\ x.id = order_id
                  /\ x.side = call.order.side
                  /\ x.order_type = call.order.order_type

\* C6 witness: a quantity-only modify has changed a resident order that an
\* earlier partial fill had already reduced.
C6_Witness ==
    /\ call.op = "modify_order"
    /\ ret.state = "Modified"
    /\ \E i \in 1..Len(OwnBefore) :
          /\ OwnBefore[i].id = ret.id
          /\ OwnBefore[i].quantity # call.order.quantity

C9_BandReject ==
    IsAdd =>
        /\ OutsideBands =>
              /\ ret.state = "Rejected"
              /\ bids = prev.bids
              /\ asks = prev.asks
              /\ published = <<>>
        /\ ( /\ prev.instrument.state # "Closed"
             /\ call.order.quantity > 0
             /\ (call.order.order_type = "Market"
                 \/ (call.order.price > 0 /\ ~BothSidesBefore)) )
              => ret.state # "Rejected"

\* C9 witness: an otherwise valid order below the lower band has been
\* rejected on an open instrument.
C9_Witness ==
    /\ IsAdd
    /\ prev.instrument.state # "Closed"
    /\ call.order.quantity > 0
    /\ call.order.price > 0
    /\ BothSidesBefore
    /\ call.order.price < BandLow
    /\ ret.state = "Rejected"

\* the last call is an add_order that only the price bands rejected
BandRejected ==
    /\ IsAdd
    /\ prev.instrument.state # "Closed"
    /\ call.order.quantity > 0
    /\ call.order.price > 0
    /\ OutsideBands

\* C10 as stated: an add rejected by the price bands returns the exchange
\* order id assigned to it (the incremented counter).
C10_RejectReturnsAssignedId ==
    BandRejected => (ret.state = "Rejected" /\ ret.id = order_id)

\* C10 as amended: an add rejected by the price bands returns (Rejected, 0)
\* although the counter has been incremented for it; the third add of the
\* band-reject scenario returns (Rejected, 0) with the counter at 3.
C10_RejectReturnsZero ==
    BandRejected =>
        /\ ret.state = "Rejected"
        /\ ret.id = 0
        /\ order_id = prev.order_id + 1

\* C10 witness: the band-reject scenario. Bid 1000 and ask 1001 rest with
\* ids 1 and 2, bands are 10, and the third add is a Day bid at 123.
C10_Witness ==
    /\ BandRejected
    /\ prev.instrument.percentage_bands = 10
    /\ Len(prev.bids) = 1 /\ prev.bids[1].price = 1000 /\ prev.bids[1].id = 1
    /\ Len(prev.asks) = 1 /\ prev.asks[1].price = 1001 /\ prev.asks[1].id = 2
    /\ call.order.side = "Bid"
    /\ call.order.price = 123
    /\ call.order.quantity = 100
    /\ call.order.order_type = "Day"
    /\ ret = [state |-> "Rejected", id |-> 0]
    /\ order_id = 3

\* ------------------------------------------------------------------------
\* Properties of modify_order, cancel_order, the session cancel and close
\* ------------------------------------------------------------------------
IsModify == call.op = "modify_order"

IsCancel == call.op = "cancel_order"

\* x has the owner (participant, gateway, session) and the id the order of
\* the last call carries
NamedByOwnerAndId(x) ==
    /\ x.participant = call.order.participant
    /\ x.gateway_id = call.order.gateway_id
    /\ x.session_id = call.order.session_id
    /\ x.id = call.order.id

\* x is the resident order a modify names: owner, id and type
NamedByModify(x) == NamedByOwnerAndId(x) /\ x.order_type = call.order.order_type

\* the list without its i-th element
Without(list, i) == SubSeq(list, 1, i - 1) \o SubSeq(list, i + 1, Len(list))

\* C11: a modify with a positive quantity that names a resident order on
\* its side and carries that order's price replaces the quantity of that
\* order only: same position, id and price, every other order, the opposite
\* side and the counter unchanged, exactly one Modify event (of the changed
\* order), result (Modified, id of the order).
C11_SamePriceModify ==
    (IsModify /\ call.order.quantity > 0) =>
        \A i \in 1..Len(OwnBefore) :
            (NamedByModify(OwnBefore[i])
                /\ OwnBefore[i].price = call.order.price) =>
                /\ OwnAfter = [OwnBefore EXCEPT
                                  ![i].quantity = call.order.quantity]
                /\ OppAfter = OppBefore
                /\ order_id = prev.order_id
                /\ instrument = prev.instrument
                /\ published = <<ModifyEvent(OwnAfter[i])>>
                /\ ret = [state |-> "Modified", id |-> OwnBefore[i].id]

\* C11 witness: a modify has changed the quantity of the first of two
\* orders resting at one price, and that order is still the first.
C11_Witness ==
    /\ IsModify
    /\ ret.state = "Modified"
    /\ Len(OwnBefore) >= 2
    /\ NamedByModify(OwnBefore[1])
    /\ OwnBefore[2].price = OwnBefore[1].price
    /\ OwnBefore[1].quantity # call.order.quantity
    /\ OwnAfter[1].id = OwnBefore[1].id
    /\ OwnAfter[1].quantity = call.order.quantity

\* the order of the last call sits at position k of its side under the id
\* the counter has just reached, behind every other order at its price
RequeuedAt(k) ==
    /\ OwnAfter[k].id = order_id
    /\ OwnAfter[k].price = call.order.price
    /\ \A j \in 1..Len(OwnAfter) :
          (j # k /\ OwnAfter[j].price = call.order.price) => j < k

\* C12: a modify with a positive quantity that names a resident order and
\* carries another price publishes the Cancel of the old order first and
\* removes it, then runs add_order on what is left: the result is
\* add_order's result, the counter is incremented and gives the order its
\* new id, and an inserted order stands behind every order at its new price.
C12_PriceChangeModify ==
    (IsModify /\ call.order.quantity > 0) =>
        \A i \in 1..Len(OwnBefore) :
            (NamedByModify(OwnBefore[i])
                /\ OwnBefore[i].price # call.order.price) =>
                LET old == OwnBefore[i]
                    left == WithSide(prev, call.order.side,
                                     Without(OwnBefore, i))
                    added == add_order(left, call.order)
                IN  /\ published = <<CancelEvent(old)>> \o added.events
                    /\ \A k \in 1..Len(OwnAfter) : OwnAfter[k].id # old.id
                    /\ ret = [state |-> added.state, id |-> added.id]
                    /\ order_id = prev.order_id + 1
                    /\ ret.state \in {"Inserted", "PartiallyTraded"} =>
                          /\ ret.id = order_id
                          /\ \E k \in 1..Len(OwnAfter) : RequeuedAt(k)

\* C12 on an instrument that is not Closed
C12_PriceChangeModifyWhileOpen ==
    prev.instrument.state # "Closed" => C12_PriceChangeModify

\* C16: close() sets the instrument's state to Closed, publishes exactly one
\* Cancel per order that was resident, the bids in book order and then the
\* asks, and leaves both sides empty.
C16_CloseCancelsAll ==
    call.op = "close" =>
        LET resident == prev.bids \o prev.asks
        IN  /\ instrument.state = "Closed"
            /\ Len(published) = Len(resident)
            /\ \A i \in 1..Len(resident) :
                  published[i] = CancelEvent(resident[i])
            /\ bids = <<>>
            /\ asks = <<>>

\* C16 witness: close() on a book with orders on both sides of an
\* instrument that was trading.
C16_Witness ==
    /\ call.op = "close"
    /\ prev.instrument.state = "Trading"
    /\ prev.bids # <<>>
    /\ prev.asks # <<>>
    /\ Len(published) = Len(prev.bids) + Len(prev.asks)

\* the ids of the orders resident in market value m
ResidentIds(m) ==
    {m.bids[i].id : i \in 1..Len(m.bids)} \cup {m.asks[i].id : i \in 1..Len(m.asks)}

\* C17: a call that starts while the instrument's state is Closed makes no
\* order resident that was not resident before it; an add_order is then
\* Rejected, publishes nothing and leaves both sides as they were.
C17_ClosedAcceptsNothing ==
    prev.instrument.state = "Closed" =>
        /\ ResidentIds(Self) \subseteq ResidentIds(prev)
        /\ IsAdd =>
              /\ ret.state = "Rejected"
              /\ published = <<>>
              /\ bids = prev.bids
              /\ asks = prev.asks

\* C17 witness: the instrument was set to Closed by an update while orders
\* were resident, and an add that the resting opposite order would have
\* filled has been rejected.
C17_Witness ==
    /\ IsAdd
    /\ prev.instrument.state = "Closed"
    /\ call.order.quantity > 0
    /\ OppBefore # <<>>
    /\ Acceptable(OppBefore[1])
    /\ ret.state = "Rejected"

\* C17 second witness case: a price-changing modify on a Closed instrument
\* has removed the old order and made none resident.
C17_ModifyWhileClosed ==
    /\ IsModify
    /\ prev.instrument.state = "Closed"
    /\ Len(OwnAfter) < Len(OwnBefore)
    /\ ret.state = "Rejected"

\* the lookup of the last modify found its order
ModifyFound ==
    /\ call.order.quantity > 0
    /\ \E i \in 1..Len(OwnBefore) : NamedByModify(OwnBefore[i])

\* C13 as stated: whenever modify_order returns Rejected, both sides of the
\* book are exactly as before the call (the named order is still resident
\* with its price and quantity).
C13_RejectedModifyKeepsBook ==
    (IsModify /\ ret.state = "Rejected") =>
        (bids = prev.bids /\ asks = prev.asks)

\* C13 as amended: a modify rejected for a zero quantity or by the lookup
\* (no such id, wrong side, wrong type, wrong owner) leaves both sides as
\* they were and publishes nothing; a modify rejected after the lookup
\* found the order carried another price, and the old order has been
\* cancelled and removed before add_order rejected the new one: the book
\* is the old book without that order.
C13_RejectedModify ==
    (IsModify /\ ret.state = "Rejected") =>
        IF ModifyFound
        THEN \E i \in 1..Len(OwnBefore) :
                /\ NamedByModify(OwnBefore[i])
                /\ OwnBefore[i].price # call.order.price
                /\ OwnAfter = Without(OwnBefore, i)
                /\ OppAfter = OppBefore
                /\ published = <<CancelEvent(OwnBefore[i])>>
        ELSE /\ bids = prev.bids
             /\ asks = prev.asks
             /\ published = <<>>

\* C13 witness: a modify by another participant, with the id, gateway,
\* session, side and type of a resident order and a new price, was rejected
\* and the order is still there.
C13_Witness ==
    /\ IsModify
    /\ ret.state = "Rejected"
    /\ call.order.quantity > 0
    /\ \E i \in 1..Len(OwnBefore) :
          /\ OwnBefore[i].id = call.order.id
          /\ OwnBefore[i].gateway_id = call.order.gateway_id
          /\ OwnBefore[i].session_id = call.order.session_id
          /\ OwnBefore[i].order_type = call.order.order_type
          /\ OwnBefore[i].participant # call.order.participant
          /\ OwnBefore[i].price # call.order.price
          /\ OwnAfter = OwnBefore

\* C13, the other case: a rejected modify has removed the order it named.
C13_OrderLost ==
    /\ IsModify
    /\ ret.state = "Rejected"
    /\ ModifyFound
    /\ prev.instrument.state # "Closed"
    /\ Len(OwnAfter) = Len(OwnBefore) - 1

\* C14: cancel_order removes the order of the named side whose participant,
\* gateway, session and id are those of the request, and only it, publishes
\* the one Cancel of that order and returns Cancelled; when no order of the
\* named side has these four it returns Rejected, removes nothing and
\* publishes nothing.
C14_CancelOrder ==
    IsCancel =>
        IF \E i \in 1..Len(OwnBefore) : NamedByOwnerAndId(OwnBefore[i])
        THEN \E i \in 1..Len(OwnBefore) :
                /\ NamedByOwnerAndId(OwnBefore[i])
                /\ OwnAfter = Without(OwnBefore, i)
                /\ OppAfter = OppBefore
                /\ published = <<CancelEvent(OwnBefore[i])>>
                /\ ret.state = "Cancelled"
        ELSE /\ ret.state = "Rejected"
             /\ bids = prev.bids
             /\ asks = prev.asks
             /\ published = <<>>

\* C14 witness: a cancel with the id, participant, session and side of a
\* resident order but another gateway id was rejected.
C14_Witness ==
    /\ IsCancel
    /\ ret.state = "Rejected"
    /\ \E i \in 1..Len(OwnBefore) :
          /\ OwnBefore[i].id = call.order.id
          /\ OwnBefore[i].participant = call.order.participant
          /\ OwnBefore[i].session_id = call.order.session_id
          /\ OwnBefore[i].gateway_id # call.order.gateway_id
    /\ bids = prev.bids
    /\ asks = prev.asks

\* C14, the other cases: the right owner and id on the wrong side is
\* rejected; the right owner and id on the right side is cancelled.
C14_WrongSide ==
    /\ IsCancel
    /\ ret.state = "Rejected"
    /\ \E i \in 1..Len(OppBefore) : NamedByOwnerAndId(OppBefore[i])

C14_Cancelled ==
    /\ IsCancel
    /\ ret.state = "Cancelled"
    /\ Len(OwnBefore) >= 2
    /\ Len(OwnAfter) = Len(OwnBefore) - 1

IsSessionCancel == call.op = "cancel_all_orders_for_session"

\* x belongs to the (participant, gateway, session) of the last session cancel
OfCancelledSession(x) ==
    /\ x.participant = call.participant
    /\ x.gateway_id = call.gateway_id
    /\ x.session_id = call.session_id

NotOfCancelledSession(x) == ~OfCancelledSession(x)

\* C15: the session cancel removes the resident orders whose participant,
\* gateway and session are the given ones, all of them and no other; the
\* orders left keep their relative order on both sides; one Cancel is
\* published per removed order; the result lists (order id, instrument id,
\* side) of the removed orders, the bids in book order and then the asks.
C15_SessionCancel ==
    IsSessionCancel =>
        LET removed == SelectSeq(prev.bids, OfCancelledSession)
                       \o SelectSeq(prev.asks, OfCancelledSession)
        IN  /\ bids = SelectSeq(prev.bids, NotOfCancelledSession)
            /\ asks = SelectSeq(prev.asks, NotOfCancelledSession)
            /\ Len(published) = Len(removed)
            /\ \A i \in 1..Len(removed) : published[i] = CancelEvent(removed[i])
            /\ Len(ret.cancelled) = Len(removed)
            /\ \A i \in 1..Len(removed) :
                  ret.cancelled[i] =
                      <<removed[i].id, prev.instrument.id, removed[i].side>>
            /\ order_id = prev.order_id
            /\ instrument = prev.instrument

\* C15 witness: a session cancel has removed a bid and an ask of the session
\* and left the order of a session that shares two of the three fields.
C15_Witness ==
    /\ IsSessionCancel
    /\ Len(ret.cancelled) = 2
    /\ ret.cancelled[1][3] = "Bid"
    /\ ret.cancelled[2][3] = "Ask"
    /\ Len(bids) + Len(asks) = 1
    /\ \E x \in {(bids \o asks)[1]} :
          /\ x.participant = call.participant
          /\ x.session_id = call.session_id
          /\ x.gateway_id # call.gateway_id

\* the feed refused the first event of the last call
FeedFailed == "feed" \in DOMAIN call

\* what the last call does on a feed that takes every event
WithFeedUp ==
    IF call.op = "add_order" THEN add_order(prev, call.order)
    ELSE IF call.op = "modify_order" THEN modify_order(prev, call.order)
    ELSE IF call.op = "cancel_order" THEN cancel_order(prev, call.order)
    ELSE Outcome([prev EXCEPT !.bids = <<>>, !.asks = <<>>,
                              !.instrument.state = "Closed"],
                 "None", 0, <<>>)

\* C18: a call whose publish fails still completes: it returns the result
\* and leaves the book and the instrument that the same call gives when the
\* publish succeeds.
C18_FeedFailureNotFatal ==
    FeedFailed =>
        /\ ret.state = (IF call.op = "close" THEN "None" ELSE WithFeedUp.state)
        /\ bids = WithFeedUp.bids
        /\ asks = WithFeedUp.asks
        /\ order_id = WithFeedUp.order_id
        /\ instrument = WithFeedUp.instrument

\* the orders of one book, bids first
Resident(m) == m.bids \o m.asks

\* the resident orders of book m that belong to the session of record t
\* (participant, gateway_id, session_id)
SessionOrders(m, t) ==
    SelectSeq(Resident(m),
              LAMBDA x : OfSession(x, t.participant, t.gateway_id,
                                   t.session_id))

\* the number of orders of the session of t in all the books of the map ms
RECURSIVE InAllBooks(_, _, _)
InAllBooks(ms, books, t) ==
    IF books = {} THEN 0
    ELSE LET b == CHOOSE x \in books : TRUE
         IN  Len(SessionOrders(ms[b], t)) + InAllBooks(ms, books \ {b}, t)

\* the gateway has just closed the connection of a session
Disconnected == call.op = "delete_socket"

\* the SessionInfo of the session just closed waits on the order group
SessionInfoSent ==
    \E i \in 1..Len(order_socket) :
        order_socket[i] = SessionInfoMessage(call.participant,
                                             call.session_id, call.gateway_id)

\* C19: when the gateway closes the connection of an authenticated session
\* (participant P, session S, gateway G) it sends SessionInfo{P,S,G} to the
\* matching engine: after the close the datagram is on the order group.
C19_DisconnectSendsSessionInfo == Disconnected => SessionInfoSent

\* a session is closed while one of its orders is resident in a book
C19_Witness ==
    /\ Disconnected
    /\ InAllBooks(markets, DOMAIN markets, call) > 0

\* some book holds an order of the logged-out (participant, session_id) l
ResidentOf(l) ==
    \E b \in DOMAIN markets, g \in GatewayIds :
        SessionOrders(markets[b],
                      [participant |-> l[1], gateway_id |-> g,
                       session_id |-> l[2]]) # <<>>

\* C19, the second half: once the session of an order is closed, the order
\* does not stay resident for ever
C19_EventuallyNoResident ==
    \A l \in Logins :
        (Disconnected /\ call.participant = l[1] /\ call.session_id = l[2])
            ~> ~ResidentOf(l)

\* the engine has just read a SessionInfo datagram
KillProcessed == call.op = "order_socket" /\ call.msg.kind = "KillSession"

\* C20: after the engine read a SessionInfo datagram for (participant,
\* session, gateway), no book of the engine holds a resident order of that
\* session, and the engine sent one execution report with state Cancelled
\* per order of the session that was resident in any book, and no other.
C20_SessionInfoEveryBook ==
    KillProcessed =>
        /\ InAllBooks(markets, DOMAIN markets, call.msg) = 0
        /\ Len(ereports) = InAllBooks(prev, DOMAIN prev, call.msg)
        /\ \A i \in 1..Len(ereports) : ereports[i].state = "Cancelled"

\* a SessionInfo is read while the session has an order in a book whose
\* instrument id is not 0
C20_Witness ==
    /\ KillProcessed
    /\ Len(SessionOrders(prev[InstrumentId], call.msg)) > 0

\* what the engine does do with a SessionInfo: the session cancel of the
\* book with id 0, one Cancelled report per order removed there; every
\* other book is left as it was
C20_SessionInfoBookZero ==
    KillProcessed =>
        /\ SessionOrders(markets[0], call.msg) = <<>>
        /\ Len(ereports) = Len(SessionOrders(prev[0], call.msg))
        /\ \A i \in 1..Len(ereports) :
              ereports[i].state = "Cancelled" /\ ereports[i].book = 0
        /\ \A b \in DOMAIN markets \ {0} : markets[b] = prev[b]

\* the last call is process_message on a NewOrder, Modify or Cancel that
\* names participant 0 or a book other than the market's
TurnedAway ==
    /\ call.op = "process_message"
    /\ call.msg.kind \in {"NewOrder", "Modify", "Cancel"}
    /\ \/ call.msg.participant = 0
       \/ call.msg.book_id # prev.instrument.id

\* C22: process_message on a NewOrder, Modify or Cancel whose participant
\* is 0 or whose book_id is not the market's instrument id returns exactly
\* one execution report, with state Rejected, and leaves the market as it
\* was: both sides, the order-id counter, the instrument; nothing is
\* published on the feed.
C22_RejectedAtTheDoor ==
    TurnedAway =>
        /\ Len(ereports) = 1
        /\ ereports[1].state = "Rejected"
        /\ Self = prev
        /\ published = <<>>

\* such a message is turned away while the book holds the order it names
C22_Witness ==
    /\ TurnedAway
    /\ call.msg.kind \in {"Modify", "Cancel"}
    /\ call.msg.order_id \in ResidentIds(prev)

\* the engine has just decoded a datagram
DatagramDecoded == call.op = "decode_message"

\* the datagram is one the gateway relayed
Relayed == DatagramDecoded /\ "relayed" \in DOMAIN call

\* the kind the engine decoded from a datagram whose first byte is b
DecodedAs(b, kind) ==
    (DatagramDecoded /\ call.buffer[1] = b) =>
        (ret.state = "Ok" /\ ret.msg.kind = kind)

\* what the gateway relays is decoded by the engine as the same type with
\* the same fields
SameMessage == Relayed => (ret.state = "Ok" /\ ret.msg = call.relayed)

\* C21 as stated: the engine reads the first byte of the local header as
\* 0 = NewOrder, 1 = Modify, 2 = Cancel, 3 = SessionNotification, and every
\* message the gateway relays is decoded as the same type with the same
\* fields.
C21_LocalHeaderTypes ==
    /\ DecodedAs(0, "NewOrder")
    /\ DecodedAs(1, "Modify")
    /\ DecodedAs(2, "Cancel")
    /\ DecodedAs(3, "KillSession")
    /\ SameMessage

\* C21, amended: the engine reads the first byte with the OEP numbering:
\* 0 = NewOrder, 1 = Modify, 2 = Cancel and 6 = SessionNotification; a
\* datagram with first byte 3 (ExecutionReport), 4, 5 or any other is not
\* decoded: decode_message returns the invalid-message-type error.  Every
\* message the gateway relays is decoded as the same type with the same
\* fields.
C21_LocalHeaderTypesAreOep ==
    /\ DecodedAs(0, "NewOrder")
    /\ DecodedAs(1, "Modify")
    /\ DecodedAs(2, "Cancel")
    /\ DecodedAs(6, "KillSession")
    /\ (DatagramDecoded /\ call.buffer[1] \notin {0, 1, 2, 6}) =>
          ret = Err("InvalidMessageType")
    /\ SameMessage

\* a relayed Cancel has been decoded by the engine
C21_Witness ==
    /\ Relayed
    /\ call.relayed.kind = "Cancel"
    /\ ret.state = "Ok"

\* a SessionInfo under type byte 6 has been decoded
C21_SessionNotificationDecoded ==
    /\ DatagramDecoded
    /\ call.buffer[1] = 6
    /\ ret.state = "Ok"
    /\ ret.msg = TheSessionInfo

\* oep_decode has just run on the first k bytes of a frame
PrefixDecoded == call.op = "oep_decode"

\* the msg_type of the frame's header
FrameType == Field(call.frame, 2, 2)

\* the types of the order pipe: NewOrder, Modify, Cancel, ExecutionReport
\* and Login
PipeType == FrameType \in 0..4

\* C30: for a complete frame B of a type of the order pipe (the 8-byte
\* header and the msg_len bytes of the message), oep_decode of every strict
\* prefix B[..k], 0 <= k < |B|, fails with the incomplete (UnexpectedEof)
\* error, and oep_decode(B) succeeds with the message of the header's type,
\* the one whose frame B is; a complete frame of an unknown type or of the
\* Trade type fails with an error that is not the incomplete error.
C30_FramingResilience ==
    PrefixDecoded =>
        /\ (PipeType /\ call.k < Len(call.frame)) =>
              ret = Err("UnexpectedEof")
        /\ (PipeType /\ call.k = Len(call.frame)) =>
              /\ ret.state = "Ok"
              /\ ret.msg.kind = MsgTypeFromU16(FrameType)
              /\ FrameOf(ret.msg) = call.frame
        /\ (~PipeType /\ call.k = Len(call.frame)) =>
              ret.state \in {"InvalidInput", "Unsupported", "InvalidData"}

\* a Login frame is decoded with its last byte still missing
C30_Witness ==
    /\ PrefixDecoded
    /\ FrameType = 4
    /\ call.k = Len(call.frame) - 1
    /\ ret = Err("UnexpectedEof")

\* the complete frames are decoded too: a NewOrder, and a Trade frame
C30_CompleteDecoded ==
    /\ PrefixDecoded
    /\ FrameType \in {0, 5}
    /\ call.k = Len(call.frame)

\* ------------------------------------------------------------------------
\* The gateway: what a connection may have relayed, and to whom the
\* execution reports go
\* ------------------------------------------------------------------------

\* the last pass of the poll loop read a frame from a client socket
ClientStep == call.op = "client"

\* the connection of that socket before the pass
Before == prev.fds[call.k]

\* the socket k is in the table of the gateway
Open(k) == k \in DOMAIN client_fd_to_session

\* what the pass wrote to the order group, and to the client socket k
ToSender == SelectSeq(writes, LAMBDA w : w.to = "sender")

ToClient(k) == SelectSeq(writes, LAMBDA w : w.to = "client" /\ w.k = k)

\* the credential store knows the user of the Login m with that password
\* and session id
Known(m) ==
    \E c \in Credentials :
        /\ c.user = UserName(m.user)
        /\ c.password = m.password
        /\ c.session_id = m.session_id

\* C23: a frame read on a connection that has not logged in (participant 0
\* or session_id 0) writes nothing to the order group; a frame that is no
\* Login closes the connection, and so does a Login the credential store
\* does not know
C23_NothingRelayedBeforeLogin ==
    (ClientStep /\ (Before.participant = 0 \/ Before.session_id = 0)) =>
        /\ ToSender = <<>>
        /\ call.msg.kind # "Login" => ~Open(call.k)
        /\ (call.msg.kind = "Login" /\ ~Known(call.msg)) => ~Open(call.k)

\* an order was the first frame of a connection, which is closed
C23_Witness ==
    /\ ClientStep
    /\ Before.participant = 0
    /\ call.msg.kind = "NewOrder"
    /\ ~Open(call.k)
    /\ ToSender = <<>>

\* a Login with a wrong password was read, and the connection is closed
C23_FailedLoginClosed ==
    /\ ClientStep
    /\ Before.participant = 0
    /\ call.msg.kind = "Login"
    /\ ~Known(call.msg)
    /\ call.msg.gateway_id = GatewayId
    /\ ~Open(call.k)

\* a frame was read on a connection logged in under the session id 0
C23_SessionZero ==
    /\ ClientStep
    /\ Before.participant # 0
    /\ Before.session_id = 0
    /\ call.msg.kind = "NewOrder"

\* what the matching engine decodes from the i-th datagram the pass wrote
\* to the order group
RelayedMessage(i) == decode_message_bytes(ToSender[i].buf)

\* the message read fails one of the three checks against its connection
FailsACheck ==
    \/ call.msg.participant # Before.participant
    \/ call.msg.gateway_id # GatewayId
    \/ call.msg.session_id # Before.session_id

\* C24: every datagram the gateway writes to the order group is a NewOrder,
\* Modify or Cancel read on a logged-in connection, with the participant
\* and the session_id of that connection and the gateway id of the
\* configuration; a NewOrder, Modify or Cancel that fails one of the three
\* checks closes its connection and nothing is written to the order group
C24_RelayedMessagesAreChecked ==
    /\ ~ClientStep => ToSender = <<>>
    /\ ClientStep =>
        /\ \A i \in 1..Len(ToSender) :
              /\ RelayedMessage(i).state = "Ok"
              /\ RelayedMessage(i).msg.kind \in RelayedKinds
              /\ Before.participant # 0
              /\ RelayedMessage(i).msg.participant = Before.participant
              /\ RelayedMessage(i).msg.gateway_id = GatewayId
              /\ RelayedMessage(i).msg.session_id = Before.session_id
        /\ (call.msg.kind \in RelayedKinds /\ FailsACheck) =>
              ~Open(call.k) /\ ToSender = <<>>

\* an order of a logged-in connection was relayed
C24_Witness ==
    /\ ClientStep
    /\ Len(ToSender) = 1
    /\ RelayedMessage(1).msg.kind = "NewOrder"
    /\ RelayedMessage(1).msg.participant = Before.participant
    /\ Open(call.k)

\* an order under another participant was read on a logged-in connection,
\* which is closed
C24_WrongParticipantClosed ==
    /\ ClientStep
    /\ Before.participant # 0
    /\ call.msg.kind = "NewOrder"
    /\ call.msg.participant # Before.participant
    /\ call.msg.session_id = Before.session_id
    /\ call.msg.gateway_id = GatewayId
    /\ ~Open(call.k)

\* the connection of the socket of the last pass had logged in before it
LoggedInBefore ==
    /\ call.op \in {"client", "gone"}
    /\ call.k \in DOMAIN prev.fds
    /\ Before.participant # 0

\* C25: a pass of the poll loop leaves the participant and the session_id
\* of every connection that had logged in (participant # 0) as they were,
\* as long as the connection is in the table; a Login read on such a
\* connection closes it
C25_LoggedInIsImmutable ==
    /\ call.op \in {"accept", "client", "gone", "publisher"} =>
          \A k \in DOMAIN prev.fds \cap DOMAIN client_fd_to_session :
              prev.fds[k].participant # 0 =>
                 /\ client_fd_to_session[k].participant
                       = prev.fds[k].participant
                 /\ client_fd_to_session[k].session_id
                       = prev.fds[k].session_id
    /\ (ClientStep /\ LoggedInBefore /\ call.msg.kind = "Login") =>
          ~Open(call.k)

\* a second Login, of another user, was read on a logged-in connection
C25_Witness ==
    /\ ClientStep
    /\ LoggedInBefore
    /\ call.msg.kind = "Login"
    /\ Known(call.msg)
    /\ call.msg.session_id # Before.session_id
    /\ ~Open(call.k)

\* the Login the connection had logged in with was read again on it
C25_SameLoginAgain ==
    /\ ClientStep
    /\ LoggedInBefore
    /\ call.msg.kind = "Login"
    /\ Known(call.msg)
    /\ call.msg.session_id = Before.session_id
    /\ ~Open(call.k)

\* an order was relayed for a logged-in connection, which stays as it was
C25_StaysLoggedIn ==
    /\ ClientStep
    /\ LoggedInBefore
    /\ Len(ToSender) = 1
    /\ Open(call.k)
    /\ client_fd_to_session[call.k] = Before

\* the sockets of the table that are logged in under the session id s
Authenticated(s) ==
    {k \in DOMAIN client_fd_to_session :
        /\ client_fd_to_session[k].participant # 0
        /\ client_fd_to_session[k].session_id = s}

\* the session ids of the credential store
SessionIds == {c.session_id : c \in Credentials}

\* C26: at most one connection of the table is logged in under a session id
C26_OneConnectionPerSession ==
    \A s \in SessionIds : Cardinality(Authenticated(s)) <= 1

\* a Login was accepted on a socket for a session id another socket of the
\* table is logged in under; session_id_to_client_fd names the newcomer
C26_Witness ==
    /\ ClientStep
    /\ call.msg.kind = "Login"
    /\ Before.participant = 0
    /\ \E s \in SessionIds :
          /\ Authenticated(s) = ClientFds
          /\ session_id_to_client_fd[s] = call.k

\* the last pass of the poll loop read an execution report from the
\* internal publisher socket
ReportStep == call.op = "publisher"

\* the sockets that were logged in under the session id of that report
\* before the pass
Addressed ==
    {k \in DOMAIN prev.fds :
        /\ prev.fds[k].participant # 0
        /\ prev.fds[k].session_id = call.report.session_id}

\* C27: an execution report with the gateway id of the configuration is
\* written to every connection of the table that is logged in under the
\* session id of the report (the socket taking the write); a report with
\* another gateway id is written to no connection
C27_ReportsReachTheirSession ==
    ReportStep =>
        /\ (call.report.gateway_id = GatewayId /\ call.socket_ok) =>
              \A k \in Addressed :
                  \E i \in 1..Len(writes) :
                      /\ writes[i].to = "client"
                      /\ writes[i].k = k
                      /\ writes[i].buf = FrameOf(call.report)
        /\ call.report.gateway_id # GatewayId => writes = <<>>

\* a Login with a wrong password named the session id of a logged-in
\* connection and was closed; the report for that session id, with the
\* gateway id of the configuration, is written to nobody
C27_Witness ==
    /\ ReportStep
    /\ call.report.gateway_id = GatewayId
    /\ Cardinality(Addressed) = 1
    /\ DOMAIN client_fd_to_session = Addressed
    /\ writes = <<>>

\* a report reached the connection logged in under its session id
C27_ReportForwarded ==
    /\ ReportStep
    /\ call.report.gateway_id = GatewayId
    /\ \E k \in Addressed : ToClient(k) = <<[to |-> "client", k |-> k,
                                            buf |-> FrameOf(call.report)]>>

\* a report for another gateway found a connection logged in under its
\* session id, and was dropped
C27_OtherGatewayDropped ==
    /\ ReportStep
    /\ call.report.gateway_id # GatewayId
    /\ Addressed # {}
    /\ writes = <<>>

\* ------------------------------------------------------------------------
\* Cork and uncork
\* ------------------------------------------------------------------------

\* a method was called on the session of CorkFd: as it was, as it is
CorkedBefore == prev.fds[CorkFd]

CorkedNow == client_fd_to_session[CorkFd]

\* the one write that carries the bytes b to the socket k
OneWrite(k, b) == writes = <<[to |-> "client", k |-> k, buf |-> b]>>

\* send on a corked session writes nothing and appends to cork_buf
SendWhileCorked ==
    (call.op = "send" /\ CorkedBefore.is_corked) =>
        /\ writes = <<>>
        /\ CorkedNow.cork_buf = CorkedBefore.cork_buf \o call.buf
        /\ CorkedNow.is_corked
        /\ handled = CorkedNow.cork_buf

\* the acknowledgement of a Login is one write of the header and the
\* Login, and no Login writes to the order group
LoginAcknowledged ==
    (ClientStep /\ call.msg.kind = "Login") =>
        /\ ToSender = <<>>
        /\ Open(call.k) =>
              /\ OneWrite(call.k, FrameOf(call.msg))
              /\ Len(writes[1].buf) = OEP_HEADER_SIZE + LOGIN_SIZE
              /\ ~client_fd_to_session[call.k].is_corked
              /\ client_fd_to_session[call.k].cork_buf = <<>>
        /\ ~Open(call.k) => writes = <<>>

\* C28 as stated: on a corked session send writes nothing and appends to
\* cork_buf; uncork makes exactly one socket write of all the bytes passed
\* to send since cork and leaves cork_buf empty and the session uncorked;
\* the acknowledgement of a Login is one write of 8 + 144 bytes and
\* nothing goes to the order group (an uncork with nothing sent since cork
\* is taken to need no write)
C28_UncorkWritesOnce ==
    /\ SendWhileCorked
    /\ LoginAcknowledged
    /\ (call.op = "uncork" /\ CorkedBefore.is_corked) =>
          /\ OneWrite(CorkFd, handled) \/ (handled = <<>> /\ writes = <<>>)
          /\ CorkedNow.cork_buf = <<>>
          /\ ~CorkedNow.is_corked

\* C28, amended: uncork makes one socket write of all the bytes passed to
\* send since cork, and empties cork_buf, when there are such bytes and the
\* socket takes the write; with no byte in cork_buf it writes nothing and
\* uncorks; when the socket refuses the write it returns the error and
\* leaves cork_buf and the corked flag as they were
C28_UncorkWritesOnceIfTaken ==
    /\ SendWhileCorked
    /\ LoginAcknowledged
    /\ call.op = "uncork" =>
          /\ (CorkedBefore.cork_buf # <<>> /\ call.socket_ok) =>
                /\ OneWrite(CorkFd, handled)
                /\ handled = CorkedBefore.cork_buf
                /\ CorkedNow.cork_buf = <<>>
                /\ ~CorkedNow.is_corked
                /\ ret = Ok(Len(handled))
          /\ CorkedBefore.cork_buf = <<>> =>
                /\ writes = <<>>
                /\ ~CorkedNow.is_corked
                /\ ret = Ok(0)
          /\ (CorkedBefore.cork_buf # <<>> /\ ~call.socket_ok) =>
                /\ writes = <<>>
                /\ CorkedNow = CorkedBefore
                /\ ret.state = "WriteFailed"

\* two buffers were sent on a corked session and uncork wrote them as one
C28_Witness ==
    /\ call.op = "uncork"
    /\ CorkedBefore.is_corked
    /\ handled = <<1, 2, 3>>
    /\ OneWrite(CorkFd, <<1, 2, 3>>)
    /\ ~CorkedNow.is_corked

\* the socket refused the write of uncork: the session stays corked with
\* its bytes
C28_UncorkRefused ==
    /\ call.op = "uncork"
    /\ ~call.socket_ok
    /\ CorkedNow.is_corked
    /\ CorkedNow.cork_buf # <<>>
    /\ writes = <<>>

\* a Login was acknowledged with one write of 152 bytes
C28_LoginAcknowledgedOnce ==
    /\ ClientStep
    /\ call.msg.kind = "Login"
    /\ Open(call.k)
    /\ Len(writes) = 1
    /\ Len(writes[1].buf) = 152

\* ------------------------------------------------------------------------
\* The byte stream of a client
\* ------------------------------------------------------------------------

\* the last pass of the poll loop read bytes of the stream
StreamStep == call.op = "read"

\* what recv_buffer holds, for a connection of the table
Unconsumed ==
    IF Open(StreamFd) THEN client_fd_to_session[StreamFd].recv_buffer
    ELSE <<>>

\* C29: after every read of a stream of valid frames the connection is
\* open, the frames handled so far, the bytes of recv_buffer and the bytes
\* not yet read make up the stream sent (every frame once and in order,
\* no byte lost), and no complete frame waits in recv_buffer
C29_SegmentationIsInvisible ==
    StreamStep =>
        /\ Open(StreamFd)
        /\ FramesOf(handled) \o Unconsumed \o unread
              = FramesOf(StreamMessages)
        /\ oep_decode(Unconsumed).state = "UnexpectedEof"

\* one read gave the end of the Login frame and the start of the next
\* frame: the connection is closed and no frame was handled
C29_Witness ==
    /\ StreamStep
    /\ ~Open(StreamFd)
    /\ ret.state = "InvalidData"
    /\ StreamOffset > FrameEnd(1)
    /\ StreamOffset < FrameEnd(2)
    /\ StreamOffset - call.n < FrameEnd(1)
    /\ handled = <<>>

\* one read gave two whole frames after the Login was handled: the
\* connection is closed
C29_TwoFramesInOneRead ==
    /\ StreamStep
    /\ ~Open(StreamFd)
    /\ handled = <<StreamMessages[1]>>
    /\ call.n = FrameEnd(3) - FrameEnd(1)

\* every read ended inside a frame or at its end, never past it: the
\* three frames were handled, the last one from pieces
C29_SplitFramesHandled ==
    /\ StreamStep
    /\ Open(StreamFd)
    /\ Len(handled) = Len(StreamMessages)
    /\ FramesOf(handled) = FramesOf(StreamMessages)
    /\ call.n = 1
    /\ unread = <<>>
    /\ Unconsumed = <<>>

\* ------------------------------------------------------------------------
\* Specification of the matching engine on its clearing connection: the
\* clearing server sends frames, the engine reads them in pieces of any
\* size and adds orders to the books it has
\* ------------------------------------------------------------------------

\* the frames of the clearing server: the instrument listed, listed again
\* with other bands, closed, listed with bands of 200, a second
\* instrument, both in one frame, a heartbeat
ListedFrame ==
    ClearFrame(1, <<Update(Listed(InstrumentId, "Trading", 10, <<65>>))>>)

RelistedFrame ==
    ClearFrame(1, <<Update(Listed(InstrumentId, "Auction", 20, <<>>))>>)

ClosedFrame ==
    ClearFrame(1, <<Update(Listed(InstrumentId, "Closed", 10, <<65>>))>>)

WideFrame ==
    ClearFrame(1, <<Update(Listed(InstrumentId, "Trading", 200, <<65>>))>>)

SecondFrame ==
    ClearFrame(1, <<Update(Listed(SecondId, "Trading", 10, <<>>))>>)

BothFrame ==
    ClearFrame(1, <<Update(Listed(InstrumentId, "Trading", 10, <<65>>)),
                    Update(Listed(SecondId, "Trading", 10, <<>>))>>)

HeartbeatFrame == ClearFrame(1, <<Heartbeat>>)

\* a frame of another protocol version
VersionFrame == ClearFrame(2, <<Heartbeat, Heartbeat>>)

\* the byte streams of the clearing server that are valid
ValidStreams ==
    {ListedFrame, BothFrame,
     ListedFrame \o RelistedFrame,
     ListedFrame \o ClosedFrame,
     ListedFrame \o WideFrame,
     ListedFrame \o SecondFrame,
     HeartbeatFrame \o ListedFrame}

\* the byte streams of the clearing server
ClearingStreams == ValidStreams \cup {ListedFrame \o VersionFrame}

\* the orders sent to a book, in this order: a bid and an ask that rest,
\* and a bid between them
ClearingOrders ==
    <<OrderNew(1, 90, 100, "Bid", "Day", 1, 1),
      OrderNew(1, 110, 100, "Ask", "Day", 1, 1),
      OrderNew(1, 95, 100, "Bid", "Day", 1, 1)>>

\* the book as Market sees it: its instrument is the one behind its Rc
Borrowed(book) ==
    MarketOf(book.bids, book.asks, book.order_id, cells[book.instrument])

\* the clearing server answers the engine's request_instruments
ServerSends(stream) ==
    /\ call = Idle
    /\ received = <<>>
    /\ clearing_socket = <<>>
    /\ clearing_socket' = stream
    /\ call' = [op |-> "sent"]
    /\ UNCHANGED <<bids, asks, order_id, instrument, ret, published, prev,
                   markets, sessions, order_socket, ereports, gateway_vars,
                   instrument_list, cells, clearing_buffer, seq, feed_socket, received,
                   applied>>

\* the clearing branch of the engine's loop: read n bytes, append them to
\* clearing_buffer, process the buffer, drain what an Ok reports. The
\* server's streams hold no request and no InstrumentUpdate shorter than
\* 12 bytes, so that no response is sent and no length underflows
ClearingReadable(n) ==
    LET buffer == clearing_buffer \o SubSeq(clearing_socket, 1, n)
        r == connection_process(ClearingNow, buffer, TRUE, TRUE)
    IN  /\ Running
        /\ n \in 1..Len(clearing_socket)
        /\ clearing_socket' = SubSeq(clearing_socket, n + 1,
                                     Len(clearing_socket))
        /\ received' = received \o SubSeq(clearing_socket, 1, n)
        /\ clearing_buffer' = IF r.state = "Ok"
                              THEN SubSeq(buffer, r.bytes + 1, Len(buffer))
                              ELSE buffer
        /\ instrument_list' = r.c.instrument_list
        /\ cells' = r.c.cells
        /\ markets' = r.c.markets
        /\ applied' = r.c.applied
        /\ call' = [op |-> "clearing", buffer |-> buffer]
        /\ ret' = r
        /\ prev' = ClearingNow
        /\ UNCHANGED <<bids, asks, order_id, instrument, published, sessions,
                       order_socket, ereports, gateway_vars, seq, feed_socket>>

\* Market::add_order on the book of the instrument. With bands above 100
\* the `100 - bands` of the band check panics in a build with overflow
\* checks and wraps in one without, where the lower band then is above
\* every price and the order is rejected
BookAddOrder(id, overflow_checks) ==
    LET m == Borrowed(markets[id])
        o == ClearingOrders[m.order_id + 1]
        banded == /\ m.instrument.state # "Closed"
                  /\ ~InvalidOrder(o)
                  /\ o.order_type # "Market"
                  /\ Len(m.bids) > 0
                  /\ Len(m.asks) > 0
        r == IF banded /\ m.instrument.percentage_bands > 100
             THEN IF overflow_checks
                  THEN Panicked([m EXCEPT !.order_id = NextOrderId(m)])
                  ELSE Rejected([m EXCEPT !.order_id = NextOrderId(m)])
             ELSE add_order(m, o)
    IN  /\ Running
        /\ id \in DOMAIN markets
        /\ markets[id].order_id < Len(ClearingOrders)
        /\ markets' = [markets EXCEPT
                          ![id] = [bids |-> r.bids, asks |-> r.asks,
                                   order_id |-> r.order_id,
                                   instrument |-> markets[id].instrument]]
        /\ call' = [op |-> "add_order", book |-> id, order |-> o]
        /\ ret' = [state |-> r.state]
        /\ prev' = ClearingNow
        /\ UNCHANGED <<bids, asks, order_id, instrument, published, sessions,
                       order_socket, ereports, gateway_vars, instrument_list,
                       cells, clearing_buffer, seq, feed_socket, clearing_socket, received,
                       applied>>

NextClearing ==
    \/ \E s \in ClearingStreams : ServerSends(s)
    \/ \E n \in 1..64 : ClearingReadable(n)
    \/ \E id \in {InstrumentId, SecondId}, oc \in BOOLEAN :
          BookAddOrder(id, oc)

SpecClearing == InitOwners /\ [][NextClearing]_vars

\* ------------------------------------------------------------------------
\* The clearing protocol and the clearing connection
\* ------------------------------------------------------------------------

\* the offsets at which the entries of the frame end, as far as they are
\* complete in the buffer: entry after entry of {type, len, payload: [len]}
RECURSIVE EntryEnds(_, _, _)
EntryEnds(buffer, offset, entries) ==
    {offset}
    \cup (IF /\ entries > 0
             /\ Len(buffer) - offset >= 4
             /\ offset + 4 + Field(buffer, offset + 2, 2) <= Len(buffer)
          THEN EntryEnds(buffer, offset + 4 + Field(buffer, offset + 2, 2),
                         entries - 1)
          ELSE {})

\* the technical header of the buffer is that of a version 1 frame
GoodHeader(buffer) ==
    /\ Len(buffer) >= 8
    /\ buffer[1] = MagicC
    /\ buffer[2] = MagicP
    /\ buffer[3] = CLEAR_PROTOCOL_VERSION

\* the first entry of the buffer has the type, and is cut short or not
FirstEntry(buffer, data_type, cut) ==
    /\ GoodHeader(buffer)
    /\ buffer[4] > 0
    /\ Field(buffer, 4, 2) = data_type
    /\ cut = (8 + Field(buffer, 6, 2) > Len(buffer))

\* the catalog and the books are those of before the call
CatalogUntouched ==
    /\ instrument_list = prev.instrument_list
    /\ cells = prev.cells
    /\ markets = prev.markets

\* C31: ClearProtocol::process never consumes part of an entry: the byte
\* count it returns is 0, or 4 plus the total size (4 + len each) of a
\* prefix of the complete entries of the frame; a truncated
\* InstrumentUpdate entry changes neither the catalog nor the set of
\* books; a wrong magic, a version other than 1 or an entry of an unknown
\* type gives a protocol error
C31_ProcessConsumesWholeEntries ==
    call.op = "process" =>
        /\ ret.state = "Ok" =>
              \/ ret.bytes = 0
              \/ /\ GoodHeader(call.buffer)
                 /\ ret.bytes \in EntryEnds(call.buffer, 4, call.buffer[4])
        /\ FirstEntry(call.buffer, CLEAR_TYPE_INSTRUMENT_UPDATE, TRUE)
              => CatalogUntouched
        /\ (Len(call.buffer) >= 8 /\ ~GoodHeader(call.buffer))
              => ret.state \in {"Invalid header", "Invalid protocol version"}
        /\ (\E t \in 4..9 : FirstEntry(call.buffer, t, FALSE))
              => ret.state = "Invalid type"

\* C31, the case: a frame whose only entry, an InstrumentUpdate, is cut
\* short: process returns the 4 bytes of the technical header
C31_Witness ==
    /\ call.op = "process"
    /\ FirstEntry(call.buffer, CLEAR_TYPE_INSTRUMENT_UPDATE, TRUE)
    /\ ret.state = "Ok"
    /\ ret.bytes = 4
    /\ CatalogUntouched

\* C31, the failing case: a Heartbeat entry with a payload of which
\* process consumes the four bytes of type and len only
C31_HeartbeatPayloadSplit ==
    /\ call.op = "process"
    /\ FirstEntry(call.buffer, CLEAR_TYPE_HEARTBEAT, FALSE)
    /\ Field(call.buffer, 6, 2) > 0
    /\ ret.state = "Ok"
    /\ ret.bytes = 8

\* the entries of the buffer, as far as complete, have the length of
\* their type: none for a Heartbeat and an AllInstrumentsRequest, 8 for
\* an InstrumentRequest, 12 and more for an InstrumentUpdate
RECURSIVE LengthsFit(_, _, _)
LengthsFit(buffer, offset, entries) ==
    IF /\ entries > 0
       /\ Len(buffer) - offset >= 4
       /\ offset + 4 + Field(buffer, offset + 2, 2) <= Len(buffer)
    THEN LET data_type == Field(buffer, offset, 2)
             data_len == Field(buffer, offset + 2, 2)
         IN  /\ data_type \in {CLEAR_TYPE_HEARTBEAT,
                               CLEAR_TYPE_ALL_INSTRUMENTS_REQUEST}
                   => data_len = 0
             /\ data_type = CLEAR_TYPE_INSTRUMENT_REQUEST => data_len = 8
             /\ data_type = CLEAR_TYPE_INSTRUMENT_UPDATE
                   => data_len >= InstrumentFixedLen
             /\ LengthsFit(buffer, offset + 4 + data_len, entries - 1)
    ELSE TRUE

\* C31, on entries that have the length of their type: process consumes
\* whole entries only
C31_WholeEntriesWhenLengthsFit ==
    (/\ call.op = "process"
     /\ GoodHeader(call.buffer)
     /\ LengthsFit(call.buffer, 4, call.buffer[4])
     /\ ret.state = "Ok")
        => ret.bytes \in {0} \cup EntryEnds(call.buffer, 4, call.buffer[4])

\* C31, the rest of the statement: a truncated InstrumentUpdate changes
\* nothing, and a wrong magic, a wrong version or a complete entry of an
\* unknown type gives a protocol error
C31_TruncatedAndRejected ==
    call.op = "process" =>
        /\ FirstEntry(call.buffer, CLEAR_TYPE_INSTRUMENT_UPDATE, TRUE)
              => CatalogUntouched
        /\ (Len(call.buffer) >= 8 /\ ~GoodHeader(call.buffer))
              => ret.state \in {"Invalid header", "Invalid protocol version"}
        /\ (\E t \in 4..9 : FirstEntry(call.buffer, t, FALSE))
              => ret.state = "Invalid type"

\* the turn of the loop consumed at least one byte and no more than the
\* buffer had left
Consumes(turn, buffer) ==
    /\ turn.state = "Ok"
    /\ turn.bytes >= 1
    /\ turn.total_bytes + turn.bytes <= Len(buffer)

\* the protocol reported 0 bytes or an error
ReportsEnd(turn) ==
    \/ turn.state = "Ok" /\ turn.bytes = 0
    \/ turn.state \in {"Invalid header", "Invalid protocol version",
                       "Invalid type"}

\* C34: ClearClearingConnection::process terminates on every buffer: each
\* turn of its loop either consumes at least one byte and never more than
\* remain, or is the last one because the protocol reported 0 bytes or an
\* error; the total it returns never exceeds the length of the buffer
C34_EachTurnConsumesOrEnds ==
    call.op = "connection_process" =>
        /\ \A t \in 1..Len(ret.turns) :
              \/ Consumes(ret.turns[t], call.buffer)
              \/ t = Len(ret.turns) /\ ReportsEnd(ret.turns[t])
        /\ ret.state = "Ok" => ret.bytes <= Len(call.buffer)

\* C34, the case: a buffer of two frames, consumed in two turns, and a
\* third turn that reports 0 bytes
C34_Witness ==
    /\ call.op = "connection_process"
    /\ Len(ret.turns) = 3
    /\ Consumes(ret.turns[1], call.buffer)
    /\ Consumes(ret.turns[2], call.buffer)
    /\ ret.turns[3].bytes = 0
    /\ ret.state = "Ok"
    /\ ret.bytes = Len(call.buffer)

\* C34, the failing case: the protocol panics in the first turn, on an
\* InstrumentUpdate entry of len 0
C34_PanicOnShortUpdate ==
    /\ call.op = "connection_process"
    /\ call.buffer = ClearFrame(1, <<Entry(CLEAR_TYPE_INSTRUMENT_UPDATE,
                                           <<>>)>>)
    /\ ret.state = "Panicked"

\* C34, what holds: a turn that is not the last consumes at least 4 bytes
\* and no more than remain, so the loop has at most Len(buffer) / 4 + 1
\* turns, and the total of an Ok is within the buffer
C34_NoTurnWithoutProgress ==
    call.op = "connection_process" =>
        /\ \A t \in 1..Len(ret.turns) - 1 :
              /\ Consumes(ret.turns[t], call.buffer)
              /\ ret.turns[t].bytes >= TechnicalHeaderLen
              /\ ret.turns[t + 1].total_bytes
                    = ret.turns[t].total_bytes + ret.turns[t].bytes
        /\ Len(ret.turns) <= Len(call.buffer) \div 4 + 1
        /\ ret.state = "Ok" => ret.bytes <= Len(call.buffer)

\* the catalog and the books after one read of the whole stream by an
\* engine that has just started
OneRead(stream) ==
    connection_process(Clearing(<<>>, <<>>, <<>>, <<>>), stream, TRUE,
                       TRUE).c

\* the instrument each book is bound to
Bindings(books) == [id \in DOMAIN books |-> books[id].instrument]

\* the whole stream of the server, read and not yet read
Stream == received \o clearing_socket

\* C32: a valid clearing stream split at arbitrary positions across reads
\* gives the same catalog and books as the same bytes in one read: no
\* read reports a protocol error and, once the stream is read, nothing of
\* it waits in the buffer and catalog and books are those of one read
C32_SplitsAreInvisible ==
    (call.op = "clearing" /\ Stream \in ValidStreams) =>
        /\ ret.state = "Ok"
        /\ clearing_socket = <<>> =>
              /\ clearing_buffer = <<>>
              /\ instrument_list = OneRead(Stream).instrument_list
              /\ cells = OneRead(Stream).cells
              /\ Bindings(markets) = Bindings(OneRead(Stream).markets)

\* C32, a case where the statement holds: two frames read in two reads
\* that end where the frames end
C32_Witness ==
    /\ call.op = "clearing"
    /\ received = ListedFrame \o RelistedFrame
    /\ call.buffer = RelistedFrame
    /\ clearing_socket = <<>>
    /\ clearing_buffer = <<>>
    /\ ret.state = "Ok"
    /\ cells = OneRead(Stream).cells
    /\ Len(applied) = 2

\* C32, the failing case: the engine has read the whole of a valid
\* one-frame stream, the technical header went with an earlier read, and
\* the entry waits in the buffer behind an "Invalid header" for ever
C32_EntryStuck ==
    /\ call.op = "clearing"
    /\ received = ListedFrame
    /\ clearing_socket = <<>>
    /\ ret.state = "Invalid header"
    /\ clearing_buffer = SubSeq(ListedFrame, 5, Len(ListedFrame))
    /\ instrument_list = <<>>

\* C32, the other failing case: a read that ends inside an entry, 8 bytes
\* and more into it, reports a protocol error
C32_ErrorOnSplit ==
    /\ call.op = "clearing"
    /\ Stream = ListedFrame
    /\ clearing_socket # <<>>
    /\ ret.state = "Invalid header"

\* the last turn of the connection's loop
LastTurn == ret.turns[Len(ret.turns)]

\* list a is the start of list b
IsPrefix(a, b) == Len(a) <= Len(b) /\ a = SubSeq(b, 1, Len(a))

\* where the frame at the start of the buffer ends, if all the entries
\* its header counts are there; otherwise 0
RECURSIVE FrameLength(_, _, _)
FrameLength(buffer, offset, entries) ==
    IF entries = 0 THEN offset
    ELSE IF /\ Len(buffer) - offset >= 4
            /\ offset + 4 + Field(buffer, offset + 2, 2) <= Len(buffer)
    THEN FrameLength(buffer, offset + 4 + Field(buffer, offset + 2, 2),
                     entries - 1)
    ELSE 0

\* the first n bytes of the buffer are one whole frame or several
RECURSIVE WholeFrames(_, _)
WholeFrames(buffer, n) ==
    /\ Len(buffer) >= 4
    /\ LET end == FrameLength(buffer, 4, buffer[4])
       IN  /\ end > 0
           /\ end <= n
           /\ end = n \/ WholeFrames(SubSeq(buffer, end + 1, Len(buffer)),
                                     n - end)

\* C33: when the processing of the clearing buffer meets a protocol error
\* after whole frames were consumed, those frames stay consumed: they are
\* removed from the buffer and not processed again, so that each
\* InstrumentUpdate entry is applied at most once
C33_ConsumedFramesStayConsumed ==
    call.op = "clearing" =>
        /\ (/\ ret.state \in {"Invalid header", "Invalid protocol version",
                             "Invalid type"}
            /\ WholeFrames(call.buffer, LastTurn.total_bytes))
              => clearing_buffer = SubSeq(call.buffer,
                                          LastTurn.total_bytes + 1,
                                          Len(call.buffer))
        /\ IsPrefix(applied, OneRead(Stream).applied)

\* C33, the case: a read gives a whole frame and the start of a frame of
\* version 2; the frame is applied and the call ends with the error
C33_Witness ==
    /\ call.op = "clearing"
    /\ Stream = ListedFrame \o VersionFrame
    /\ ret.state = "Invalid protocol version"
    /\ LastTurn.total_bytes = Len(ListedFrame)
    /\ prev.applied = <<>>
    /\ Len(applied) = 1

\* C33, the failing case: the frame consumed before the error is still in
\* the buffer at the next read and its InstrumentUpdate is applied again
C33_AppliedTwice ==
    /\ call.op = "clearing"
    /\ Stream = ListedFrame \o VersionFrame
    /\ IsPrefix(ListedFrame, clearing_buffer)
    /\ Len(applied) = 2
    /\ applied[1] = applied[2]

\* the last instrument of the list with the id
RECURSIVE LastWithId(_, _)
LastWithId(list, id) ==
    IF list[Len(list)].id = id THEN list[Len(list)]
    ELSE LastWithId(SubSeq(list, 1, Len(list) - 1), id)

\* C35: an InstrumentUpdate for a known id updates the shared instrument
\* in place, so that the book sees the state and bands of the catalog and
\* the book with its resident orders is kept; an InstrumentUpdate for an
\* unknown id adds one catalog entry and exactly one new, empty book bound
\* to that instrument
C35_UpdateInPlaceOrNewBook ==
    call.op = "clearing" =>
        /\ DOMAIN markets = DOMAIN instrument_list
        /\ Len(cells) = Cardinality(DOMAIN instrument_list)
        /\ \A id \in DOMAIN instrument_list :
              /\ markets[id].instrument = instrument_list[id]
              /\ Borrowed(markets[id]).instrument = LastWithId(applied, id)
              /\ IF id \in DOMAIN prev.instrument_list
                 THEN /\ instrument_list[id] = prev.instrument_list[id]
                      /\ markets[id] = prev.markets[id]
                 ELSE /\ instrument_list[id] > Len(prev.cells)
                      /\ markets[id] = BookNew(instrument_list[id])

\* C35, the case: the book of a listed instrument holds an order, an
\* update lists the instrument again with another state and other bands;
\* the book keeps its order and sees the new state and bands
C35_Witness ==
    /\ call.op = "clearing"
    /\ InstrumentId \in DOMAIN prev.markets
    /\ prev.markets[InstrumentId].bids # <<>>
    /\ prev.cells[prev.instrument_list[InstrumentId]].percentage_bands = 10
    /\ Len(applied) = Len(prev.applied) + 1
    /\ markets[InstrumentId].bids = prev.markets[InstrumentId].bids
    /\ Borrowed(markets[InstrumentId]).instrument.percentage_bands = 20
    /\ Borrowed(markets[InstrumentId]).instrument.state = "Auction"

\* C35, the other case: an update for an unknown id, beside a book that
\* holds an order: one more instrument, one more book, and it is empty
C35_NewBook ==
    /\ call.op = "clearing"
    /\ DOMAIN prev.markets = {InstrumentId}
    /\ prev.markets[InstrumentId].bids # <<>>
    /\ DOMAIN markets = {InstrumentId, SecondId}
    /\ markets[SecondId] = BookNew(2)
    /\ markets[InstrumentId] = prev.markets[InstrumentId]

\* C36: every instrument of the catalog has percentage_bands within
\* 0..100 in every reachable state, after an InstrumentUpdate too, so that
\* the `100 - bands` of the band check of add_order never goes below zero
C36_BandsWithinHundred ==
    \A rc \in 1..Len(cells) : cells[rc].percentage_bands \in 0..100

\* C36, the case: an InstrumentUpdate with bands of 20 for a listed
\* instrument
C36_Witness ==
    /\ call.op = "clearing"
    /\ Len(applied) = 2
    /\ applied[2].percentage_bands = 20
    /\ cells[instrument_list[InstrumentId]].percentage_bands = 20

\* C36, the failing case: an InstrumentUpdate carries bands of 200 and the
\* band check of the next order on the two-sided book subtracts below zero
C36_BandCheckUnderflows ==
    /\ call.op = "add_order"
    /\ Borrowed(markets[call.book]).instrument.percentage_bands = 200
    /\ prev.markets[call.book].bids # <<>>
    /\ prev.markets[call.book].asks # <<>>
    /\ ret.state = "Panicked"

\* ------------------------------------------------------------------------
\* Specification of the order branch of the engine's loop, on the bytes of
\* the datagrams of the order group: orders of several types, modifies and
\* cancels of them, and datagrams the engine cannot use
\* ------------------------------------------------------------------------

\* a NewOrder of the participant with the order type
TypedOrder(side, order_type) ==
    [NewOrderMessage(111, 2, 1, InstrumentId, side)
        EXCEPT !.order_type = order_type]

\* the datagrams with a message the engine handles
UsableDatagrams ==
    {Datagram(0, Encode(TypedOrder(sd, t))) :
        sd \in Sides, t \in {"Day", "GoodTillCancel", "PostOrKill"}}
    \cup {Datagram(1, Encode(ModifyMessage(111, 2, 1, InstrumentId, sd, id))) :
             sd \in Sides, id \in 1..2}
    \cup {Datagram(2, Encode(CancelMessage(111, 2, 1, InstrumentId, sd, id))) :
             sd \in Sides, id \in 1..2}

\* the datagrams the engine cannot use: a type byte that is no type, the
\* type of a message the engine does not take, a NewOrder type before the
\* payload of a Modify, a Cancel type and no payload; and one of 3 bytes
UnusableDatagrams ==
    {Datagram(7, Encode(TypedOrder("Bid", "Day"))),
     Datagram(3, EncodeSessionInfo(TheSessionInfo)),
     Datagram(0, Encode(ModifyMessage(111, 2, 1, InstrumentId, "Bid", 1))),
     Datagram(2, <<>>),
     <<0, 0, 0>>}

\* the order branch of the engine's loop on one datagram: `if r > 3`,
\* decode_message, the book of the decoded id, process_message, the
\* execution report
OrderDatagram(d) ==
    LET r == decode_message_bytes(d)
        found == /\ Len(d) > 3
                 /\ r.state = "Ok"
                 /\ r.book_id \in DOMAIN markets
        p == process_message(markets[r.book_id], r.msg)
    IN  /\ Running
        /\ d[1] = 0 =>
              \A b \in DOMAIN markets : markets[b].order_id < MaxBookOrders
        /\ call' = [op |-> "order_datagram", buffer |-> d]
        /\ prev' = markets
        /\ markets' = IF found THEN [markets EXCEPT ![r.book_id] = p.market]
                      ELSE markets
        /\ ereports' = IF found THEN p.reports ELSE <<>>
        /\ published' = IF found THEN p.events ELSE <<>>
        /\ ret' = IF Len(d) > 3 THEN [state |-> r.state]
                  ELSE [state |-> "Short"]
        /\ UNCHANGED <<bids, asks, order_id, instrument, sessions,
                       order_socket, gateway_vars, clearing_vars>>

NextDatagram ==
    \E d \in UsableDatagrams \cup UnusableDatagrams : OrderDatagram(d)

SpecDatagram == InitEngine /\ [][NextDatagram]_vars

\* ------------------------------------------------------------------------
\* The feed publisher of the matching engine: one MBOOepDisseminator shared
\* by the books. Every send_* goes through send, which prepends the
\* sequence number; the books publish their events through it, and the
\* engine's timer publishes the snapshot of every book
\* ------------------------------------------------------------------------

\* the most datagrams the publisher is asked to send
MaxSeq == 4

\* the publisher: its counter and what it has passed to its socket
Publisher(s, wire) == [seq |-> s, wire |-> wire]

\* what a send leaves: the publisher and the socket's answer
Sent(s, wire, ok) == [seq |-> s, wire |-> wire, ok |-> ok]

\* variant: the counter moves only when the socket took the datagram
disseminator_send_counting_taken(d, bytes, socket_ok) ==
    Sent(IF socket_ok THEN d.seq + 1 ELSE d.seq,
         Append(d.wire, [bytes |-> LE(d.seq, 8) \o bytes,
                         taken |-> socket_ok]),
         socket_ok)

\* MBOOepDisseminator::send: the counter moves before the socket is asked
disseminator_send(d, bytes, socket_ok) ==
    Sent(d.seq + 1,
         Append(d.wire, [bytes |-> LE(d.seq, 8) \o bytes,
                         taken |-> socket_ok]),
         socket_ok)

\* MBOOepDisseminator::send_with_header
send_with_header(d, header_bytes, bytes, socket_ok) ==
    disseminator_send(d, header_bytes \o bytes, socket_ok)

\* the NewOrder the publisher makes of an order of the book
FeedNewOrder(o, book_id) ==
    [kind |-> "NewOrder", client_order_id |-> o.id,
     participant |-> o.participant, book_id |-> book_id,
     quantity |-> o.quantity, price |-> o.price,
     order_type |-> o.order_type, side |-> o.side, gateway_id |-> 0,
     session_id |-> 0]

\* the Modify the publisher makes of an order of the book
FeedModify(o, book_id) ==
    [kind |-> "Modify", participant |-> o.participant, order_id |-> o.id,
     book_id |-> book_id, quantity |-> o.quantity, price |-> o.price,
     gateway_id |-> 0, session_id |-> 0, side |-> o.side]

\* the Cancel the publisher makes of an order of the book
FeedCancel(o, book_id) ==
    [kind |-> "Cancel", participant |-> o.participant, order_id |-> o.id,
     book_id |-> book_id, gateway_id |-> 0, session_id |-> 0,
     side |-> o.side]

\* Trade::encode
EncodeTrade(t) ==
    LE(t.bid_order_id, 8) \o LE(t.ask_order_id, 8) \o LE(t.price, 8)
    \o LE(t.quantity, 8)

\* the type tags of send_instrument_info, send_market_order, send_trade,
\* send_new_order, send_modify_order, send_cancel_order
FeedTags == {1, 2, 3, 4, 5, 6}

\* the header and the payload the send_* of an event passes to
\* send_with_header
FeedDatagram(event, book_id) ==
    IF event.kind = "Trade"
    THEN [header |-> <<3>>, bytes |-> EncodeTrade(event)]
    ELSE IF event.kind = "NewOrder"
    THEN [header |-> <<4>>,
          bytes |-> EncodeNewOrder(FeedNewOrder(event.order, book_id))]
    ELSE IF event.kind = "Modify"
    THEN [header |-> <<5>>,
          bytes |-> EncodeModify(FeedModify(event.order, book_id))]
    ELSE [header |-> <<6>>,
          bytes |-> EncodeCancel(FeedCancel(event.order, book_id))]

\* the sends of Market::publish_snapshot: the instrument, the bids, the
\* asks
SnapshotDatagrams(market) ==
    LET i == market.instrument
        resting == market.bids \o market.asks
    IN  <<[header |-> <<1>>,
           bytes |-> InstrumentEncode(Listed(i.id, i.state,
                                             i.percentage_bands, <<65>>))]>>
        \o [x \in 1..Len(resting) |->
               [header |-> <<2>>,
                bytes |-> EncodeNewOrder(FeedNewOrder(resting[x], i.id))]]

\* the sends of one caller, in order, up to the first one the socket
\* refuses: the `unwrap()` of the book's publish_* and the `?` of
\* publish_snapshot both stop there. `fail` is the position of the
\* refused send, 0 when the socket takes them all
RECURSIVE SendAll(_, _, _)
SendAll(d, sends, fail) ==
    IF sends = <<>> THEN Sent(d.seq, d.wire, TRUE)
    ELSE LET r == send_with_header(d, Head(sends).header, Head(sends).bytes,
                                   fail # 1)
         IN  IF ~r.ok THEN r
             ELSE SendAll(Publisher(r.seq, r.wire), Tail(sends),
                          IF fail = 0 THEN 0 ELSE fail - 1)

\* the snapshot loop of main over the books, in the order the map yields
\* them: a failed publish_snapshot is logged and the loop goes on
RECURSIVE SendSnapshots(_, _, _)
SendSnapshots(d, order, fail) ==
    IF order = <<>> THEN d
    ELSE LET r == SendAll(d, SnapshotDatagrams(markets[Head(order)]),
                          fail[Head(order)])
         IN  SendSnapshots(Publisher(r.seq, r.wire), Tail(order), fail)

\* the datagrams of the order group in this specification: orders on both
\* books, an ask that crosses the bid, a modify and a cancel
CrossingAsk ==
    [NewOrderMessage(111, 2, 1, InstrumentId, "Ask") EXCEPT !.price = 197]

PublisherDatagrams ==
    {Datagram(0, Encode(NewOrderMessage(111, 2, 1, b, "Bid"))) :
        b \in BookIds}
    \cup {Datagram(0, Encode(CrossingAsk)),
          Datagram(1, Encode(ModifyMessage(111, 2, 1, InstrumentId, "Bid", 1))),
          Datagram(2, Encode(CancelMessage(111, 2, 1, InstrumentId, "Bid", 1)))}

\* the orders the books may iterate in
BookOrders == {<<0, InstrumentId>>, <<InstrumentId, 0>>}

\* the publisher of the engine
PublisherNow == Publisher(seq, feed_socket)

\* the order branch of the engine's loop with the feed behind the book:
\* the book publishes each event of the call through the publisher and
\* unwraps the result
OrderOnFeed(d, fail) ==
    LET r == decode_message_bytes(d)
        p == process_message(markets[r.book_id], r.msg)
        sends == [x \in 1..Len(p.events) |->
                     FeedDatagram(p.events[x], r.book_id)]
        f == SendAll(PublisherNow, sends, fail)
    IN  /\ Running
        /\ r.state = "Ok"
        /\ r.book_id \in DOMAIN markets
        /\ d[1] = 0 => markets[r.book_id].order_id < MaxBookOrders
        /\ fail <= Len(sends)
        /\ seq + Len(sends) <= MaxSeq
        /\ call' = [op |-> "order_on_feed", buffer |-> d]
        /\ prev' = markets
        /\ markets' = [markets EXCEPT ![r.book_id] = p.market]
        /\ ereports' = IF f.ok THEN p.reports ELSE <<>>
        /\ published' = p.events
        /\ seq' = f.seq
        /\ feed_socket' = f.wire
        /\ ret' = [state |-> IF f.ok THEN "Ok" ELSE "Panicked"]
        /\ UNCHANGED <<bids, asks, order_id, instrument, sessions,
                       order_socket, gateway_vars, instrument_list, cells,
                       clearing_buffer, clearing_socket, received, applied>>

\* the timer branch of the engine's loop: the snapshot of every book
SnapshotsDue(order, fail) ==
    LET f == SendSnapshots(PublisherNow, order, fail)
    IN  /\ Running
        /\ seq + Len(markets[0].bids) + Len(markets[0].asks)
               + Len(markets[InstrumentId].bids)
               + Len(markets[InstrumentId].asks) + 2 <= MaxSeq
        /\ call' = [op |-> "snapshots", order |-> order, fail |-> fail]
        /\ prev' = markets
        /\ seq' = f.seq
        /\ feed_socket' = f.wire
        /\ ret' = [state |-> "Ok"]
        /\ published' = <<>>
        /\ ereports' = <<>>
        /\ UNCHANGED <<bids, asks, order_id, instrument, markets, sessions,
                       order_socket, gateway_vars, instrument_list, cells,
                       clearing_buffer, clearing_socket, received, applied>>

NextPublisher ==
    \/ \E d \in PublisherDatagrams, fail \in 0..2 : OrderOnFeed(d, fail)
    \/ \E order \in BookOrders, fail \in [BookIds -> 0..1] :
          SnapshotsDue(order, fail)

SpecPublisher == InitEngine /\ [][NextPublisher]_vars

\* ------------------------------------------------------------------------
\* The closed market, the engine's datagrams, the feed's sequence
\* ------------------------------------------------------------------------

\* C38: a market whose instrument is Closed has no resident orders:
\* whenever the state becomes Closed, by close() or by an InstrumentUpdate
\* of the clearing connection, both sides are empty, and they stay empty
\* while the state is Closed
C38_ClosedMeansEmpty ==
    instrument.state = "Closed" => bids = <<>> /\ asks = <<>>

\* C38, the case: close() on a book with resident orders leaves a Closed
\* instrument and two empty sides
C38_Witness ==
    /\ call.op = "close"
    /\ prev.bids # <<>>
    /\ prev.instrument.state = "Trading"
    /\ instrument.state = "Closed"
    /\ bids = <<>>
    /\ asks = <<>>

\* C38, the failing case: an InstrumentUpdate closes the instrument of a
\* book with resident orders, and the orders stay
C38_ClosedByUpdate ==
    /\ call.op = "instrument_update"
    /\ prev.instrument.state = "Trading"
    /\ instrument.state = "Closed"
    /\ bids # <<>>
    /\ bids = prev.bids
    /\ asks = prev.asks

\* C38, the failing case on the engine's clearing connection: the server
\* lists the instrument, an order rests in its book, the server lists it
\* as Closed
C38_ClosedByClearing ==
    /\ call.op = "clearing"
    /\ InstrumentId \in DOMAIN markets
    /\ Borrowed(markets[InstrumentId]).instrument.state = "Closed"
    /\ markets[InstrumentId].bids # <<>>

\* C38, what holds: while the instrument is Closed no order is added
C38_NothingAddedWhileClosed ==
    (call.op = "add_order" /\ prev.instrument.state = "Closed")
        => /\ ret.state = "Rejected"
           /\ bids = prev.bids
           /\ asks = prev.asks

\* the engine has just handled a datagram of the order group
DatagramHandled == call.op = "order_datagram"

\* the payload length decode_message asserts for the type byte, or -1 for
\* a type byte it has no arm for
AssertedSize(b) ==
    IF b = 0 THEN NEWORDER_SIZE
    ELSE IF b = 1 THEN MODIFY_SIZE
    ELSE IF b = 2 THEN CANCEL_SIZE
    ELSE IF b = 6 THEN SESSIONINFO_SIZE
    ELSE -1

\* a datagram of 4 bytes and more that the engine cannot use: its type
\* byte is unknown, or its payload has not the length of its type
Unusable(d) ==
    /\ Len(d) >= 4
    /\ Len(d) - HEADER_SIZE # AssertedSize(d[1])

\* C39: an order datagram of at least 4 bytes that the engine cannot use,
\* because its type byte is unknown or because the payload has not the
\* length of its type, is dropped as an error value: decode_message
\* returns Err, no book changes, no execution report is sent, and the
\* engine goes on
C39_UnusableDatagramDropped ==
    (DatagramHandled /\ Unusable(call.buffer)) =>
        /\ ret.state = "InvalidMessageType"
        /\ markets = prev
        /\ ereports = <<>>
        /\ published = <<>>

\* C39, the case: a datagram with the type byte 7 arrives while an order
\* rests in the book; it is dropped with an error and the book is as before
C39_Witness ==
    /\ DatagramHandled
    /\ call.buffer[1] = 7
    /\ ret.state = "InvalidMessageType"
    /\ markets[InstrumentId].bids # <<>>
    /\ markets = prev
    /\ ereports = <<>>

\* C39, the failing case: a datagram with the type byte of a NewOrder and
\* the payload of a Modify stops the engine in the assertion of
\* decode_message
C39_WrongLengthPanics ==
    /\ DatagramHandled
    /\ call.buffer[1] = 0
    /\ Len(call.buffer) = HEADER_SIZE + MODIFY_SIZE
    /\ ret.state = "Panicked"

\* C39, what holds: a datagram whose type byte has no arm in
\* decode_message is dropped as an error value
C39_UnknownTypeDropped ==
    (DatagramHandled /\ Len(call.buffer) >= 4
        /\ AssertedSize(call.buffer[1]) = -1) =>
        /\ ret.state = "InvalidMessageType"
        /\ markets = prev
        /\ ereports = <<>>

\* the orders of one side of a book
Resting(list) == {list[i] : i \in 1..Len(list)}

\* the message the engine decoded from the datagram of the last step
Decoded == decode_message_bytes(call.buffer).msg

\* the datagram of the last step is a Modify of the book, with a positive
\* quantity, by the owner of an order that rests on its side of the book
OwnerModifies ==
    /\ DatagramHandled
    /\ Len(call.buffer) = HEADER_SIZE + MODIFY_SIZE
    /\ call.buffer[1] = 1
    /\ Decoded.book_id \in DOMAIN prev
    /\ Decoded.quantity > 0
    /\ \E x \in Resting(SideOf(prev[Decoded.book_id], Decoded.side)) :
          /\ x.id = Decoded.order_id
          /\ x.participant = Decoded.participant
          /\ x.gateway_id = Decoded.gateway_id
          /\ x.session_id = Decoded.session_id

\* the order the Modify names, as it rested before the step
Named ==
    CHOOSE x \in Resting(SideOf(prev[Decoded.book_id], Decoded.side)) :
        x.id = Decoded.order_id

\* C40: through process_message the owner of any resident order can
\* modify it, whatever order type it was inserted with (Day,
\* GoodTillCancel, PostOrKill, ...): the modify is never rejected as not
\* found
C40_OwnerCanModifyAnyType ==
    OwnerModifies =>
        /\ Len(ereports) = 1
        /\ ereports[1].state # "Rejected"

\* C40, the case: the owner modifies its resident Day order
C40_Witness ==
    /\ OwnerModifies
    /\ Named.order_type = "Day"
    /\ ereports[1].state = "Modified"

\* C40, the failing case: the owner's Modify of its resident
\* GoodTillCancel order is rejected and the order is as it was
C40_GoodTillCancelNotFound ==
    /\ OwnerModifies
    /\ Named.order_type = "GoodTillCancel"
    /\ ereports[1].state = "Rejected"
    /\ markets = prev

\* C40, what holds: the owner can modify every resident Day order
C40_OwnerCanModifyDay ==
    (OwnerModifies /\ Named.order_type = "Day")
        => ereports[1].state = "Modified"

\* the sequence number a datagram of the feed carries in its first 8 bytes
SeqOf(x) == FromLE(SubSeq(x.bytes, 1, 8))

\* the type tag of a datagram of the feed
TagOf(x) == x.bytes[9]

\* the book a datagram of an order or of an instrument is about
BookOf(x) ==
    IF TagOf(x) = 1 THEN Field(Slice(x.bytes, 9, Len(x.bytes) - 9), 0, 8)
    ELSE Field(Slice(x.bytes, 9, Len(x.bytes) - 9), 16, 8)

Taken(x) == x.taken

\* the datagrams the socket took: what is on the feed, in order
OnFeed == SelectSeq(feed_socket, Taken)

\* C37: each datagram sent by the publisher carries in its first 8 bytes
\* a sequence number exactly one greater than that of the datagram sent
\* before it, starting at 0, across the event types and the books
C37_SequenceConsecutiveOnFeed ==
    \A x \in 1..Len(OnFeed) : SeqOf(OnFeed[x]) = x - 1

\* C37, as amended: the sequence number counts the datagrams the publisher
\* passed to its socket, taken or refused, starting at 0; the counter is
\* the number of them; on the feed the numbers increase strictly, and two
\* neighbours differ by one more than the datagrams the socket refused
\* between them
C37_SequenceCountsSends ==
    /\ seq = Len(feed_socket)
    /\ \A x \in 1..Len(feed_socket) :
          /\ SeqOf(feed_socket[x]) = x - 1
          /\ TagOf(feed_socket[x]) \in FeedTags
    /\ \A x \in 1..Len(OnFeed), y \in 1..Len(OnFeed) :
          x < y => SeqOf(OnFeed[x]) < SeqOf(OnFeed[y])

\* C37, the case: four datagrams are on the feed, of more than one type
\* and of both books, and the socket refused none
C37_Witness ==
    /\ Len(OnFeed) = MaxSeq
    /\ OnFeed = feed_socket
    /\ \E x \in 1..Len(OnFeed), y \in 1..Len(OnFeed) :
          /\ TagOf(OnFeed[x]) = 4
          /\ TagOf(OnFeed[y]) = 1
          /\ BookOf(OnFeed[x]) # BookOf(OnFeed[y])

\* C37, the failing case: the socket refused a datagram of a snapshot, the
\* loop went on, and the next datagram on the feed is two ahead of the one
\* before it
C37_GapAfterRefusedSnapshot ==
    /\ call.op = "snapshots"
    /\ Running
    /\ \E x \in 1..(Len(OnFeed) - 1) :
          SeqOf(OnFeed[x + 1]) = SeqOf(OnFeed[x]) + 2

\* C37: a trade and the orders of a book follow each other on the feed
C37_TradeOnFeed ==
    \E x \in 1..(Len(OnFeed) - 1) :
        /\ TagOf(OnFeed[x]) = 3
        /\ SeqOf(OnFeed[x + 1]) = SeqOf(OnFeed[x]) + 1

====
